---------------------------- MODULE Spec2Model ----------------------------
(***************************************************************************)
(* MCPX Audio Processing Unit (hw/xbox/mcpx_apu.c): the register file, the *)
(* front-end method engine with its three voice lists, the interrupt       *)
(* arbiter, the processor reset handshake and the frame tick.              *)
(*                                                                         *)
(* Handlers run under the big device lock, so each MMIO access and each    *)
(* frame tick is one atomic action.  A failed assert() ends the process    *)
(* (halt = "abort"); a list walk that never meets the null handle never    *)
(* returns (halt = "hang").                                                *)
(***************************************************************************)
EXTENDS Integers, Sequences, FiniteSets, TLC

(***************************************************************************)
(* Bounds of the model.                                                    *)
(***************************************************************************)
\* voice records modelled in guest RAM: handles 0 .. NumVoices - 1
NumVoices == 3
\* longest run of top inserts into one list that the history records
MaxRun == 3
\* guest writes to the VP window and frame ticks in one behaviour
MaxSteps == 3
\* the page size of the small DMA configurations (TARGET_PAGE_SIZE scaled down)
SmallPage == 4
\* the size of guest RAM in the small DMA configurations
SmallRam == 32
\* the longest buffer of a DMA transfer in the small configurations
MaxLen == 3
\* the most top inserts that fill the lists before a walk
MaxSetup == 3

(***************************************************************************)
(* Register addresses and fields (the #defines of the source).             *)
(***************************************************************************)
NV_PAPU_ISTS == 4096
NV_PAPU_ISTS_GINTSTS == 1
NV_PAPU_ISTS_FETINTSTS == 16
NV_PAPU_IEN == 4100
NV_PAPU_FECTL == 4352
NV_PAPU_FECTL_FEMETHMODE == 224
NV_PAPU_FECTL_FEMETHMODE_TRAPPED == 224
NV_PAPU_FECTL_FETRAPREASON == 3840
NV_PAPU_FECTL_FETRAPREASON_REQUESTED == 3840
NV_PAPU_FECV == 4368
NV_PAPU_FEAV == 4376
NV_PAPU_FEAV_VALUE == 65535
NV_PAPU_FEAV_LST == 196608
NV_PAPU_FEDECMETH == 4864
NV_PAPU_FEDECPARAM == 4868
NV_PAPU_FEMEMADDR == 4900
NV_PAPU_FEMEMDATA == 4916
NV_PAPU_FETFORCE1 == 5380
NV_PAPU_FETFORCE1_SE2FE_IDLE_VOICE == 32768
NV_PAPU_SECTL == 8192
NV_PAPU_SECTL_XCNTMODE == 24
NV_PAPU_SECTL_XCNTMODE_OFF == 0
NV_PAPU_XGSCNT == 8204
NV_PAPU_VPVADDR == 8236
NV_PAPU_TVL2D == 8276
NV_PAPU_CVL2D == 8280
NV_PAPU_NVL2D == 8284
NV_PAPU_TVL3D == 8288
NV_PAPU_CVL3D == 8292
NV_PAPU_NVL3D == 8296
NV_PAPU_TVLMP == 8300
NV_PAPU_CVLMP == 8304
NV_PAPU_NVLMP == 8308
NV_PAPU_GPXMEM == 0
NV_PAPU_GPMIXBUF == 20480
NV_PAPU_GPYMEM == 24576
NV_PAPU_GPPMEM == 40960
NV_PAPU_GPRST == 65532
NV_PAPU_GPRST_GPRST == 1
NV_PAPU_GPRST_GPDSPRST == 2
NV_PAPU_GPRST_GPNMI == 4
NV_PAPU_GPRST_GPABORT == 8
NV_PAPU_EPXMEM == 0
NV_PAPU_EPYMEM == 24576
NV_PAPU_EPPMEM == 40960
NV_PAPU_EPRST == 65532

NV1BA0_PIO_FREE == 16
NV1BA0_PIO_SET_ANTECEDENT_VOICE == 288
NV1BA0_PIO_SET_ANTECEDENT_VOICE_LIST_INHERIT == 0
NV1BA0_PIO_VOICE_ON == 292
NV1BA0_PIO_VOICE_ON_HANDLE == 65535
NV1BA0_PIO_VOICE_OFF == 296
NV1BA0_PIO_VOICE_OFF_HANDLE == 65535
NV1BA0_PIO_VOICE_PAUSE == 320
NV1BA0_PIO_VOICE_PAUSE_HANDLE == 65535
NV1BA0_PIO_VOICE_PAUSE_ACTION == 262144
NV1BA0_PIO_SET_CURRENT_VOICE == 760
SE2FE_IDLE_VOICE == 32768

NV_PAVS_SIZE == 128
NV_PAVS_VOICE_PAR_STATE == 84
NV_PAVS_VOICE_PAR_STATE_PAUSED == 262144
NV_PAVS_VOICE_PAR_STATE_ACTIVE_VOICE == 2097152
NV_PAVS_VOICE_TAR_PITCH_LINK == 124
NV_PAVS_VOICE_TAR_PITCH_LINK_NEXT_VOICE_HANDLE == 65535

\* the reserved null handle: the 0xFFFF of voice_get_mask, fe_method, se_frame
NULL_HANDLE == 65535
\* the cycle count of dsp_run in se_frame
DSP_RUN_CYCLES == 1000
\* the frame period in ms: the + 10 of timer_mod in mcpx_apu_write, se_frame
FRAME_PERIOD_MS == 10
\* the size of d->regs, the bound of the top region's plain storage
TOP_REGS_SIZE == 131072
\* the page size of the build
TARGET_PAGE_SIZE == 4096

(***************************************************************************)
(* C bit operations on non-negative integers.                              *)
(***************************************************************************)
RECURSIVE BitAnd(_, _)
BitAnd(a, b) ==
    IF a = 0 \/ b = 0 THEN 0
    ELSE IF a % 256 = 0 \/ b % 256 = 0
    THEN 256 * BitAnd(a \div 256, b \div 256)
    ELSE (a % 2) * (b % 2) + 2 * BitAnd(a \div 2, b \div 2)

\* v & ~mask
BitClear(v, mask) == v - BitAnd(v, mask)

\* a | b
BitOr(a, b) == a + b - BitAnd(a, b)

RECURSIVE ctz32(_)
ctz32(mask) ==
    IF mask % 256 = 0 THEN 8 + ctz32(mask \div 256)
    ELSE IF mask % 2 = 1 THEN 0
    ELSE 1 + ctz32(mask \div 2)

RECURSIVE Pow2(_)
Pow2(n) ==
    IF n = 0 THEN 1
    ELSE IF n >= 8 THEN 256 * Pow2(n - 8)
    ELSE 2 * Pow2(n - 1)

GET_MASK(v, mask) == BitAnd(v, mask) \div Pow2(ctz32(mask))

\* the value of v after SET_MASK(v, mask, val)
SET_MASK(v, mask, val) ==
    BitOr(BitClear(v, mask), BitAnd(val * Pow2(ctz32(mask)), mask))

(***************************************************************************)
(* The state.                                                              *)
(***************************************************************************)
VARIABLES
    regs,       \* d->regs: the registers of the top region that the model keeps
    gp_regs,    \* d->gp.regs
    ep_regs,    \* d->ep.regs
    voices,     \* guest RAM: the words of each voice record at VPVADDR
    far_voices, \* guest RAM: the voice records at the other base of VpvBases
    irq,        \* the level of the PCI interrupt line
    timer,      \* d->se.frame_timer is pending
    due,        \* the ms from now to the deadline of the pending frame_timer
    dsp_calls,  \* the calls the last handler made on the two DSPs, in order
    halt,       \* "run", or "abort" (an assert failed), or "hang"
    nsteps,     \* VP writes and frame ticks so far (at most MaxSteps)
    last_onoff, \* history: per handle, the most recent of VOICE_ON / VOICE_OFF
    relinked,   \* history: a VOICE_ON named a handle that was linked on a list
    top_run,    \* history: the current run of top inserts into one list
    rst_hist,   \* history: per processor, its last two RST writes
    last_write, \* history: the register write that was the last action
    last_read,  \* history: the MMIO read that was the last action
    dma         \* the guest RAM of the DMA windows and the transfers made on it

vars == <<regs, gp_regs, ep_regs, voices, far_voices, irq, timer, due,
          dsp_calls, halt, nsteps, last_onoff, relinked, top_run, rst_hist,
          last_write, last_read, dma>>

Handles == 0 .. NumVoices - 1

HandleValues == Handles \cup {NULL_HANDLE}

\* The entries of d->regs that the model keeps: the named registers, the
\* first and the last word of the array, and two entries that only accesses
\* at an unaligned address reach.
TopRegs ==
    {NV_PAPU_ISTS, NV_PAPU_IEN, NV_PAPU_FECTL, NV_PAPU_FECV, NV_PAPU_FEAV,
     NV_PAPU_FEDECMETH, NV_PAPU_FEDECPARAM, NV_PAPU_FETFORCE1, NV_PAPU_SECTL,
     NV_PAPU_TVL2D, NV_PAPU_CVL2D, NV_PAPU_NVL2D,
     NV_PAPU_TVL3D, NV_PAPU_CVL3D, NV_PAPU_NVL3D,
     NV_PAPU_TVLMP, NV_PAPU_CVLMP, NV_PAPU_NVLMP,
     NV_PAPU_FEMEMADDR, NV_PAPU_FEMEMDATA, NV_PAPU_XGSCNT, NV_PAPU_VPVADDR,
     0, TOP_REGS_SIZE - 4, NV_PAPU_IEN + 1, NV_PAPU_IEN + 2}

\* The entries of d->gp.regs and d->ep.regs that the model keeps: RST, a
\* word between the DSP memory windows, and an unaligned entry.
ProcRegs == {NV_PAPU_GPRST, NV_PAPU_GPPMEM - 4, NV_PAPU_GPPMEM - 3}

\* the values of VPVADDR that the model follows
VpvBases == {0, 1048576}

VoiceFields == {NV_PAVS_VOICE_PAR_STATE, NV_PAVS_VOICE_TAR_PITCH_LINK}

Procs == {"gp", "ep"}

\* voice_list_regs[i], i = 0 .. 2
voice_list_regs ==
    [i \in 0 .. 2 |->
        CASE i = 0 -> [top |-> NV_PAPU_TVL2D, current |-> NV_PAPU_CVL2D,
                       next |-> NV_PAPU_NVL2D]
          [] i = 1 -> [top |-> NV_PAPU_TVL3D, current |-> NV_PAPU_CVL3D,
                       next |-> NV_PAPU_NVL3D]
          [] i = 2 -> [top |-> NV_PAPU_TVLMP, current |-> NV_PAPU_CVLMP,
                       next |-> NV_PAPU_NVLMP]]

\* The device as the handlers see it: MCPXAPUState, guest RAM, the PCI line.
Dev ==
    [regs |-> regs, gp_regs |-> gp_regs, ep_regs |-> ep_regs,
     voices |-> voices, far_voices |-> far_voices, irq |-> irq,
     timer |-> timer, due |-> due, calls |-> <<>>, visits |-> <<>>,
     halt |-> halt]

\* The state a handler leaves behind.
Leaves(s) ==
    /\ regs' = s.regs
    /\ gp_regs' = s.gp_regs
    /\ ep_regs' = s.ep_regs
    /\ voices' = s.voices
    /\ far_voices' = s.far_voices
    /\ irq' = s.irq
    /\ timer' = s.timer
    /\ due' = s.due
    /\ dsp_calls' = s.calls
    /\ halt' = s.halt

\* assert(false), or an assert whose condition fails
Abort(s) == [s EXCEPT !.halt = "abort"]

(***************************************************************************)
(* Voice record accessors.                                                 *)
(***************************************************************************)
\* voice_get_mask, for a handle that passes its assert
voice_get_mask(s, voice_handle, offset, mask) ==
    BitAnd(s.voices[voice_handle][offset], mask) \div Pow2(ctz32(mask))

\* mutant: the word is written without the bits outside the mask
voice_set_mask_clobber(s, voice_handle, offset, mask, val) ==
    IF s.halt # "run" THEN s
    ELSE IF ~(voice_handle < NULL_HANDLE) THEN Abort(s)
    ELSE [s EXCEPT !.voices[voice_handle][offset] =
              BitAnd(val * Pow2(ctz32(mask)), mask)]

voice_set_mask(s, voice_handle, offset, mask, val) ==
    IF s.halt # "run" THEN s
    ELSE IF ~(voice_handle < NULL_HANDLE) THEN Abort(s)
    ELSE [s EXCEPT !.voices[voice_handle][offset] =
              BitOr(BitClear(@, mask),
                    BitAnd(val * Pow2(ctz32(mask)), mask))]

(***************************************************************************)
(* Interrupt arbiter.                                                      *)
(***************************************************************************)
\* mutant: the line is driven, GINTSTS is left as it was
update_irq_line_only(s) ==
    IF /\ BitAnd(s.regs[NV_PAPU_IEN], NV_PAPU_ISTS_GINTSTS) # 0
       /\ BitAnd(BitClear(s.regs[NV_PAPU_ISTS], NV_PAPU_ISTS_GINTSTS),
                 s.regs[NV_PAPU_IEN]) # 0
    THEN [s EXCEPT !.irq = TRUE]
    ELSE [s EXCEPT !.irq = FALSE]

\* mutant: GINTSTS itself counts as a pending interrupt
update_irq_unmasked(s) ==
    IF /\ BitAnd(s.regs[NV_PAPU_IEN], NV_PAPU_ISTS_GINTSTS) # 0
       /\ BitAnd(s.regs[NV_PAPU_ISTS], s.regs[NV_PAPU_IEN]) # 0
    THEN [s EXCEPT !.regs[NV_PAPU_ISTS] = BitOr(@, NV_PAPU_ISTS_GINTSTS),
                   !.irq = TRUE]
    ELSE [s EXCEPT !.regs[NV_PAPU_ISTS] = BitClear(@, NV_PAPU_ISTS_GINTSTS),
                   !.irq = FALSE]

update_irq(s) ==
    IF /\ BitAnd(s.regs[NV_PAPU_IEN], NV_PAPU_ISTS_GINTSTS) # 0
       /\ BitAnd(BitClear(s.regs[NV_PAPU_ISTS], NV_PAPU_ISTS_GINTSTS),
                 s.regs[NV_PAPU_IEN]) # 0
    THEN [s EXCEPT !.regs[NV_PAPU_ISTS] = BitOr(@, NV_PAPU_ISTS_GINTSTS),
                   !.irq = TRUE]
    ELSE [s EXCEPT !.regs[NV_PAPU_ISTS] = BitClear(@, NV_PAPU_ISTS_GINTSTS),
                   !.irq = FALSE]

(***************************************************************************)
(* Top region writes.                                                      *)
(***************************************************************************)
\* stl_le_phys(&address_space_memory, paddr, val): the word lands in a voice
\* record of one of the two windows, or in guest RAM that the model does not
\* keep
stl_le_phys(s, paddr, val) ==
    LET near == s.regs[NV_PAPU_VPVADDR]
        hits(base) == {<<h, f>> \in Handles \X VoiceFields :
                          paddr = base + h * NV_PAVS_SIZE + f}
    IN  IF hits(near) # {}
        THEN LET w == CHOOSE w \in hits(near) : TRUE
             IN  [s EXCEPT !.voices[w[1]][w[2]] = val]
        ELSE IF \E base \in VpvBases \ {near} : hits(base) # {}
        THEN LET base == CHOOSE b \in VpvBases \ {near} : hits(b) # {}
                 w == CHOOSE w \in hits(base) : TRUE
             IN  [s EXCEPT !.far_voices[w[1]][w[2]] = val]
        ELSE s

\* mutant: the store keeps the bits that the register already holds
store_reg_or(s, addr, val) ==
    [s EXCEPT !.regs[addr] = BitOr(@, val)]

\* d->regs[addr] = val; a new VPVADDR moves the voice window to the other base
store_reg(s, addr, val) ==
    IF addr = NV_PAPU_VPVADDR /\ val # s.regs[NV_PAPU_VPVADDR]
    THEN [s EXCEPT !.regs[addr] = val,
                   !.voices = s.far_voices, !.far_voices = s.voices]
    ELSE [s EXCEPT !.regs[addr] = val]

\* mutant: mode OFF leaves the timer as it is
sectl_timer_keep(s, val) ==
    IF GET_MASK(val, NV_PAPU_SECTL_XCNTMODE) = NV_PAPU_SECTL_XCNTMODE_OFF
    THEN s
    ELSE [s EXCEPT !.timer = TRUE, !.due = FRAME_PERIOD_MS]

\* the SECTL case: timer_del, or timer_mod to now + 10 ms
sectl_timer(s, val) ==
    IF GET_MASK(val, NV_PAPU_SECTL_XCNTMODE) = NV_PAPU_SECTL_XCNTMODE_OFF
    THEN [s EXCEPT !.timer = FALSE, !.due = 0]
    ELSE [s EXCEPT !.timer = TRUE, !.due = FRAME_PERIOD_MS]

\* mutant: the ISTS write keeps the written bits instead of clearing them
mcpx_apu_write_keep(s, addr, val, size) ==
    CASE addr = NV_PAPU_ISTS ->
            update_irq([s EXCEPT !.regs[NV_PAPU_ISTS] = BitAnd(@, val)])
      [] addr = NV_PAPU_SECTL ->
            [sectl_timer(s, val) EXCEPT !.regs[addr] = val]
      [] addr = NV_PAPU_FEMEMDATA ->
            [stl_le_phys(s, s.regs[NV_PAPU_FEMEMADDR], val)
                EXCEPT !.regs[addr] = val]
      [] OTHER -> IF addr < TOP_REGS_SIZE THEN store_reg(s, addr, val) ELSE s

\* mcpx_apu_write: no check of size or alignment
mcpx_apu_write(s, addr, val, size) ==
    CASE addr = NV_PAPU_ISTS ->
            update_irq([s EXCEPT !.regs[NV_PAPU_ISTS] = BitClear(@, val)])
      [] addr = NV_PAPU_SECTL ->
            [sectl_timer(s, val) EXCEPT !.regs[addr] = val]
      [] addr = NV_PAPU_FEMEMDATA ->
            [stl_le_phys(s, s.regs[NV_PAPU_FEMEMADDR], val)
                EXCEPT !.regs[addr] = val]
      [] OTHER -> IF addr < TOP_REGS_SIZE THEN store_reg(s, addr, val) ELSE s

\* mcpx_apu_read at virtual-clock time now (in ns): the value returned
mcpx_apu_read(s, addr, size, now) ==
    CASE addr = NV_PAPU_XGSCNT -> [halt |-> s.halt, r |-> now \div 100]
      [] OTHER -> [halt |-> s.halt,
                   r |-> IF addr < TOP_REGS_SIZE THEN s.regs[addr] ELSE 0]

(***************************************************************************)
(* Front-end method engine.                                                *)
(***************************************************************************)
\* mutant: the selector indexes voice_list_regs without the - 1
voice_list_top_off(list) == voice_list_regs[list % 3].top

\* the TOP register of the list that a non-inherit FEAV selector names
voice_list_top(list) == voice_list_regs[list - 1].top

\* mutant: TOP is written before the old TOP is stored as the next link
voice_on_top_swapped(s, selected_handle, list) ==
    LET top_reg == voice_list_top(list)
        s1 == [s EXCEPT !.regs[top_reg] = selected_handle]
    IN  voice_set_mask(s1, selected_handle,
            NV_PAVS_VOICE_TAR_PITCH_LINK,
            NV_PAVS_VOICE_TAR_PITCH_LINK_NEXT_VOICE_HANDLE,
            s1.regs[top_reg])

\* mutant: the voice is linked to itself
voice_on_top_self(s, selected_handle, list) ==
    LET top_reg == voice_list_top(list)
        s1 == voice_set_mask(s, selected_handle,
                  NV_PAVS_VOICE_TAR_PITCH_LINK,
                  NV_PAVS_VOICE_TAR_PITCH_LINK_NEXT_VOICE_HANDLE,
                  selected_handle)
    IN  IF s1.halt # "run" THEN s1
        ELSE [s1 EXCEPT !.regs[top_reg] = selected_handle]

\* mutant: the next link is taken from the TOP of the first list
voice_on_top_first(s, selected_handle, list) ==
    LET top_reg == voice_list_top(list)
        s1 == voice_set_mask(s, selected_handle,
                  NV_PAVS_VOICE_TAR_PITCH_LINK,
                  NV_PAVS_VOICE_TAR_PITCH_LINK_NEXT_VOICE_HANDLE,
                  s.regs[voice_list_regs[0].top])
    IN  IF s1.halt # "run" THEN s1
        ELSE [s1 EXCEPT !.regs[top_reg] = selected_handle]

\* VOICE_ON with a list selector: the voice goes to the top of that list
voice_on_top(s, selected_handle, list) ==
    LET top_reg == voice_list_top(list)
        s1 == voice_set_mask(s, selected_handle,
                  NV_PAVS_VOICE_TAR_PITCH_LINK,
                  NV_PAVS_VOICE_TAR_PITCH_LINK_NEXT_VOICE_HANDLE,
                  s.regs[top_reg])
    IN  IF s1.halt # "run" THEN s1
        ELSE [s1 EXCEPT !.regs[top_reg] = selected_handle]

\* mutant: the antecedent's link is written before it is read
voice_on_after_swapped(s, selected_handle) ==
    LET antecedent_voice == GET_MASK(s.regs[NV_PAPU_FEAV], NV_PAPU_FEAV_VALUE)
    IN  IF ~(antecedent_voice # NULL_HANDLE) THEN Abort(s)
        ELSE
          LET s1 == voice_set_mask(s, antecedent_voice,
                  NV_PAVS_VOICE_TAR_PITCH_LINK,
                  NV_PAVS_VOICE_TAR_PITCH_LINK_NEXT_VOICE_HANDLE,
                  selected_handle)
              next_handle == voice_get_mask(s1, antecedent_voice,
                  NV_PAVS_VOICE_TAR_PITCH_LINK,
                  NV_PAVS_VOICE_TAR_PITCH_LINK_NEXT_VOICE_HANDLE)
          IN  voice_set_mask(s1, selected_handle,
                  NV_PAVS_VOICE_TAR_PITCH_LINK,
                  NV_PAVS_VOICE_TAR_PITCH_LINK_NEXT_VOICE_HANDLE,
                  next_handle)

\* VOICE_ON with selector INHERIT: the voice goes after the antecedent voice
voice_on_after(s, selected_handle) ==
    LET antecedent_voice == GET_MASK(s.regs[NV_PAPU_FEAV], NV_PAPU_FEAV_VALUE)
    IN  IF ~(antecedent_voice # NULL_HANDLE) THEN Abort(s)
        ELSE
          LET next_handle == voice_get_mask(s, antecedent_voice,
                  NV_PAVS_VOICE_TAR_PITCH_LINK,
                  NV_PAVS_VOICE_TAR_PITCH_LINK_NEXT_VOICE_HANDLE)
              s1 == voice_set_mask(s, selected_handle,
                  NV_PAVS_VOICE_TAR_PITCH_LINK,
                  NV_PAVS_VOICE_TAR_PITCH_LINK_NEXT_VOICE_HANDLE,
                  next_handle)
          IN  voice_set_mask(s1, antecedent_voice,
                  NV_PAVS_VOICE_TAR_PITCH_LINK,
                  NV_PAVS_VOICE_TAR_PITCH_LINK_NEXT_VOICE_HANDLE,
                  selected_handle)

voice_on(s, argument) ==
    LET selected_handle == BitAnd(argument, NV1BA0_PIO_VOICE_ON_HANDLE)
        list == GET_MASK(s.regs[NV_PAPU_FEAV], NV_PAPU_FEAV_LST)
        s1 == IF list # NV1BA0_PIO_SET_ANTECEDENT_VOICE_LIST_INHERIT
              THEN voice_on_top(s, selected_handle, list)
              ELSE voice_on_after(s, selected_handle)
    IN  voice_set_mask(s1, selected_handle,
            NV_PAVS_VOICE_PAR_STATE,
            NV_PAVS_VOICE_PAR_STATE_ACTIVE_VOICE,
            1)

\* mutant: VOICE_OFF also cuts the link of the voice
voice_off_unlink(s, argument) ==
    voice_set_mask(
        voice_set_mask(s, BitAnd(argument, NV1BA0_PIO_VOICE_OFF_HANDLE),
            NV_PAVS_VOICE_PAR_STATE,
            NV_PAVS_VOICE_PAR_STATE_ACTIVE_VOICE,
            0),
        BitAnd(argument, NV1BA0_PIO_VOICE_OFF_HANDLE),
        NV_PAVS_VOICE_TAR_PITCH_LINK,
        NV_PAVS_VOICE_TAR_PITCH_LINK_NEXT_VOICE_HANDLE,
        NULL_HANDLE)

voice_off(s, argument) ==
    voice_set_mask(s, BitAnd(argument, NV1BA0_PIO_VOICE_OFF_HANDLE),
        NV_PAVS_VOICE_PAR_STATE,
        NV_PAVS_VOICE_PAR_STATE_ACTIVE_VOICE,
        0)

voice_pause(s, argument) ==
    voice_set_mask(s, BitAnd(argument, NV1BA0_PIO_VOICE_PAUSE_HANDLE),
        NV_PAVS_VOICE_PAR_STATE,
        NV_PAVS_VOICE_PAR_STATE_PAUSED,
        IF BitAnd(argument, NV1BA0_PIO_VOICE_PAUSE_ACTION) # 0 THEN 1 ELSE 0)

\* mutant: the trap is taken whether FETFORCE1 enables it or not
idle_voice_forced(s) ==
    update_irq(
        [s EXCEPT !.regs[NV_PAPU_FECTL] =
                      BitOr(BitOr(BitClear(BitClear(@,
                                NV_PAPU_FECTL_FEMETHMODE),
                                NV_PAPU_FECTL_FETRAPREASON),
                            NV_PAPU_FECTL_FEMETHMODE_TRAPPED),
                            NV_PAPU_FECTL_FETRAPREASON_REQUESTED),
                  !.regs[NV_PAPU_ISTS] = BitOr(@, NV_PAPU_ISTS_FETINTSTS)])

\* mutant: the trap is taken without a status bit
idle_voice_silent(s) ==
    IF BitAnd(s.regs[NV_PAPU_FETFORCE1],
              NV_PAPU_FETFORCE1_SE2FE_IDLE_VOICE) # 0
    THEN [s EXCEPT !.regs[NV_PAPU_FECTL] =
                       BitOr(BitOr(BitClear(BitClear(@,
                                 NV_PAPU_FECTL_FEMETHMODE),
                                 NV_PAPU_FECTL_FETRAPREASON),
                             NV_PAPU_FECTL_FEMETHMODE_TRAPPED),
                             NV_PAPU_FECTL_FETRAPREASON_REQUESTED)]
    ELSE Abort(s)

\* mutant: the trap is one-shot, taking it clears its enable in FETFORCE1
idle_voice_oneshot(s) ==
    IF BitAnd(s.regs[NV_PAPU_FETFORCE1],
              NV_PAPU_FETFORCE1_SE2FE_IDLE_VOICE) # 0
    THEN update_irq(
           [s EXCEPT !.regs[NV_PAPU_FECTL] =
                         BitOr(BitOr(BitClear(BitClear(@,
                                   NV_PAPU_FECTL_FEMETHMODE),
                                   NV_PAPU_FECTL_FETRAPREASON),
                               NV_PAPU_FECTL_FEMETHMODE_TRAPPED),
                               NV_PAPU_FECTL_FETRAPREASON_REQUESTED),
                     !.regs[NV_PAPU_ISTS] =
                         BitOr(@, NV_PAPU_ISTS_FETINTSTS),
                     !.regs[NV_PAPU_FETFORCE1] =
                         BitClear(@, NV_PAPU_FETFORCE1_SE2FE_IDLE_VOICE)])
    ELSE Abort(s)

\* SE2FE_IDLE_VOICE: trap the front end, or abort when the trap is not enabled
idle_voice(s) ==
    IF BitAnd(s.regs[NV_PAPU_FETFORCE1],
              NV_PAPU_FETFORCE1_SE2FE_IDLE_VOICE) # 0
    THEN update_irq(
           [s EXCEPT !.regs[NV_PAPU_FECTL] =
                         BitOr(BitOr(BitClear(BitClear(@,
                                   NV_PAPU_FECTL_FEMETHMODE),
                                   NV_PAPU_FECTL_FETRAPREASON),
                               NV_PAPU_FECTL_FEMETHMODE_TRAPPED),
                               NV_PAPU_FECTL_FETRAPREASON_REQUESTED),
                     !.regs[NV_PAPU_ISTS] =
                         BitOr(@, NV_PAPU_ISTS_FETINTSTS)])
    ELSE Abort(s)

fe_method(s, method, argument) ==
    IF s.halt # "run" THEN s
    ELSE
      LET s0 == [s EXCEPT !.regs[NV_PAPU_FEDECMETH] = method,
                          !.regs[NV_PAPU_FEDECPARAM] = argument]
      IN  CASE method = NV1BA0_PIO_SET_ANTECEDENT_VOICE ->
                  [s0 EXCEPT !.regs[NV_PAPU_FEAV] = argument]
            [] method = NV1BA0_PIO_VOICE_ON -> voice_on(s0, argument)
            [] method = NV1BA0_PIO_VOICE_OFF -> voice_off(s0, argument)
            [] method = NV1BA0_PIO_VOICE_PAUSE -> voice_pause(s0, argument)
            [] method = NV1BA0_PIO_SET_CURRENT_VOICE ->
                  [s0 EXCEPT !.regs[NV_PAPU_FECV] = argument]
            [] method = SE2FE_IDLE_VOICE -> idle_voice(s0)
            [] OTHER -> Abort(s0)

\* the offsets of the VP window that vp_write hands to fe_method
VpMethods ==
    {NV1BA0_PIO_SET_ANTECEDENT_VOICE, NV1BA0_PIO_VOICE_ON,
     NV1BA0_PIO_VOICE_OFF, NV1BA0_PIO_VOICE_PAUSE,
     NV1BA0_PIO_SET_CURRENT_VOICE}

\* vp_write: no check of size or alignment
vp_write(s, addr, val, size) ==
    IF addr \in VpMethods THEN fe_method(s, addr, val) ELSE s

\* vp_read: the free count of the queue, 0 elsewhere
vp_read(s, addr, size) ==
    [halt |-> s.halt, r |-> IF addr = NV1BA0_PIO_FREE THEN 128 ELSE 0]

(***************************************************************************)
(* Processor reset handshake.                                              *)
(***************************************************************************)
\* mutant: reset only when both bits are cleared
proc_rst_write_and(oldval, val) ==
    IF /\ BitAnd(val, NV_PAPU_GPRST_GPRST) = 0
       /\ BitAnd(val, NV_PAPU_GPRST_GPDSPRST) = 0
    THEN "reset"
    ELSE IF /\ \/ BitAnd(oldval, NV_PAPU_GPRST_GPRST) = 0
               \/ BitAnd(oldval, NV_PAPU_GPRST_GPDSPRST) = 0
            /\ BitAnd(val, NV_PAPU_GPRST_GPRST) # 0
            /\ BitAnd(val, NV_PAPU_GPRST_GPDSPRST) # 0
    THEN "bootstrap"
    ELSE "none"

\* mutant: bootstrap whenever both bits are written set, whatever the old value
proc_rst_write_always(oldval, val) ==
    IF \/ BitAnd(val, NV_PAPU_GPRST_GPRST) = 0
       \/ BitAnd(val, NV_PAPU_GPRST_GPDSPRST) = 0
    THEN "reset"
    ELSE "bootstrap"

\* the call proc_rst_write makes on the DSP: "reset", "bootstrap" or "none"
proc_rst_write(oldval, val) ==
    IF \/ BitAnd(val, NV_PAPU_GPRST_GPRST) = 0
       \/ BitAnd(val, NV_PAPU_GPRST_GPDSPRST) = 0
    THEN "reset"
    ELSE IF /\ \/ BitAnd(oldval, NV_PAPU_GPRST_GPRST) = 0
               \/ BitAnd(oldval, NV_PAPU_GPRST_GPDSPRST) = 0
            /\ BitAnd(val, NV_PAPU_GPRST_GPRST) # 0
            /\ BitAnd(val, NV_PAPU_GPRST_GPDSPRST) # 0
    THEN "bootstrap"
    ELSE "none"

\* the DSP calls of one handler, appended in call order
DspCall(s, proc, op) ==
    IF op = "none" THEN s
    ELSE [s EXCEPT !.calls = Append(@, [dsp |-> proc, op |-> op])]

\* the DSP memory windows of the GP region: X, MIXBUF, Y, P
GpWindows ==
    [X |-> NV_PAPU_GPXMEM .. NV_PAPU_GPXMEM + 4096 * 4 - 1,
     MIXBUF |-> NV_PAPU_GPMIXBUF .. NV_PAPU_GPMIXBUF + 1024 * 4 - 1,
     Y |-> NV_PAPU_GPYMEM .. NV_PAPU_GPYMEM + 2048 * 4 - 1,
     P |-> NV_PAPU_GPPMEM .. NV_PAPU_GPPMEM + 4096 * 4 - 1]

\* the DSP memory windows of the EP region: X, Y, P
EpWindows ==
    [X |-> NV_PAPU_EPXMEM .. NV_PAPU_EPXMEM + 3072 * 4 - 1,
     Y |-> NV_PAPU_EPYMEM .. NV_PAPU_EPYMEM + 256 * 4 - 1,
     P |-> NV_PAPU_EPPMEM .. NV_PAPU_EPPMEM + 4096 * 4 - 1]

InWindow(windows, addr) == \E k \in DOMAIN windows : addr \in windows[k]

\* assert(size == 4); assert(addr % 4 == 0)
AccessShapeOk(addr, size) == size = 4 /\ addr % 4 = 0

gp_write(s, addr, val, size) ==
    IF ~AccessShapeOk(addr, size) THEN Abort(s)
    ELSE IF InWindow(GpWindows, addr) THEN DspCall(s, "gp", "write_memory")
    ELSE IF addr = NV_PAPU_GPRST
    THEN [DspCall(s, "gp", proc_rst_write(s.gp_regs[NV_PAPU_GPRST], val))
             EXCEPT !.gp_regs[NV_PAPU_GPRST] = val]
    ELSE [s EXCEPT !.gp_regs[addr] = val]

\* gp_read; mem is the word that dsp_read_memory returns
gp_read(s, addr, size, mem) ==
    IF ~AccessShapeOk(addr, size) THEN [halt |-> "abort", r |-> 0]
    ELSE IF InWindow(GpWindows, addr) THEN [halt |-> s.halt, r |-> mem]
    ELSE [halt |-> s.halt, r |-> s.gp_regs[addr]]

ep_write(s, addr, val, size) ==
    IF ~AccessShapeOk(addr, size) THEN Abort(s)
    ELSE IF InWindow(EpWindows, addr) THEN DspCall(s, "ep", "write_memory")
    ELSE IF addr = NV_PAPU_EPRST
    THEN [DspCall(s, "ep", proc_rst_write(s.ep_regs[NV_PAPU_EPRST], val))
             EXCEPT !.ep_regs[NV_PAPU_EPRST] = val]
    ELSE [s EXCEPT !.ep_regs[addr] = val]

\* ep_read; mem is the word that dsp_read_memory returns
ep_read(s, addr, size, mem) ==
    IF ~AccessShapeOk(addr, size) THEN [halt |-> "abort", r |-> 0]
    ELSE IF InWindow(EpWindows, addr) THEN [halt |-> s.halt, r |-> mem]
    ELSE [halt |-> s.halt, r |-> s.ep_regs[addr]]

(***************************************************************************)
(* Frame tick.                                                             *)
(***************************************************************************)
\* the while loop of se_frame over one list; fuel counts the iterations
\* left before a handle must have repeated, after which the loop never ends
RECURSIVE frame_walk(_, _, _)
frame_walk(s, list, fuel) ==
    LET current == voice_list_regs[list].current
        next == voice_list_regs[list].next
    IN  IF s.halt # "run" THEN s
        ELSE IF s.regs[current] = NULL_HANDLE THEN s
        ELSE IF ~(s.regs[current] < NULL_HANDLE) THEN Abort(s)
        ELSE IF fuel = 0 THEN [s EXCEPT !.halt = "hang"]
        ELSE
          LET s1 == [s EXCEPT !.regs[next] =
                        voice_get_mask(s, s.regs[current],
                            NV_PAVS_VOICE_TAR_PITCH_LINK,
                            NV_PAVS_VOICE_TAR_PITCH_LINK_NEXT_VOICE_HANDLE),
                              !.visits = Append(@, <<list, s.regs[current]>>)]
              s2 == IF voice_get_mask(s1, s1.regs[current],
                            NV_PAVS_VOICE_PAR_STATE,
                            NV_PAVS_VOICE_PAR_STATE_ACTIVE_VOICE) = 0
                    THEN fe_method(s1, SE2FE_IDLE_VOICE, s1.regs[current])
                    ELSE s1
              s3 == IF s2.halt # "run" THEN s2
                    ELSE [s2 EXCEPT !.regs[current] = s2.regs[next]]
          IN  frame_walk(s3, list, fuel - 1)

\* one pass of the for loop of se_frame
frame_list(s, list) ==
    IF s.halt # "run" THEN s
    ELSE frame_walk(
           [s EXCEPT !.regs[voice_list_regs[list].current] =
                         s.regs[voice_list_regs[list].top]],
           list, NumVoices)

\* mutant: one of the two reset bits is enough for the kick
frame_kick_any(s) ==
    LET any(v) == \/ BitAnd(v, NV_PAPU_GPRST_GPRST) # 0
                  \/ BitAnd(v, NV_PAPU_GPRST_GPDSPRST) # 0
        s1 == IF any(s.gp_regs[NV_PAPU_GPRST])
              THEN DspCall(DspCall(s, "gp", "start_frame"), "gp", "run")
              ELSE s
    IN  IF s.halt # "run" THEN s
        ELSE IF any(s.ep_regs[NV_PAPU_EPRST])
        THEN DspCall(s1, "ep", "start_frame")
        ELSE s1

\* "Kickoff DSP processing"
frame_kick(s) ==
    LET both(v) == /\ BitAnd(v, NV_PAPU_GPRST_GPRST) # 0
                   /\ BitAnd(v, NV_PAPU_GPRST_GPDSPRST) # 0
        s1 == IF both(s.gp_regs[NV_PAPU_GPRST])
              THEN DspCall(DspCall(s, "gp", "start_frame"), "gp", "run")
              ELSE s
    IN  IF s.halt # "run" THEN s
        ELSE IF both(s.ep_regs[NV_PAPU_EPRST])
        THEN DspCall(s1, "ep", "start_frame")
        ELSE s1

\* mutant: the tick walks the 2D list only
se_frame_short(s) ==
    LET s0 == [s EXCEPT !.timer = TRUE, !.due = FRAME_PERIOD_MS]
        s1 == frame_list(s0, 0)
    IN  IF s1.halt # "run" THEN s1
        ELSE frame_kick(DspCall(s1, "gp", "write_mixbuf"))

se_frame(s) ==
    LET s0 == [s EXCEPT !.timer = TRUE, !.due = FRAME_PERIOD_MS]
        s1 == frame_list(frame_list(frame_list(s0, 0), 1), 2)
    IN  IF s1.halt # "run" THEN s1
        ELSE frame_kick(DspCall(s1, "gp", "write_mixbuf"))


(***************************************************************************)
(* Reading the lists.                                                      *)
(***************************************************************************)
next_link(v, h) ==
    BitAnd(v[h][NV_PAVS_VOICE_TAR_PITCH_LINK],
           NV_PAVS_VOICE_TAR_PITCH_LINK_NEXT_VOICE_HANDLE)

Active(v, h) ==
    GET_MASK(v[h][NV_PAVS_VOICE_PAR_STATE],
             NV_PAVS_VOICE_PAR_STATE_ACTIVE_VOICE)

Paused(v, h) ==
    GET_MASK(v[h][NV_PAVS_VOICE_PAR_STATE], NV_PAVS_VOICE_PAR_STATE_PAUSED)

\* TOP[L], L in 1 .. 3 as the FEAV list selector counts the lists
TOP(r, L) == r[voice_list_regs[L - 1].top]

\* the first n handles met from h along the next links, up to the null handle
RECURSIVE Chain(_, _, _)
Chain(v, h, n) ==
    IF n = 0 \/ h \notin Handles THEN <<>>
    ELSE <<h>> \o Chain(v, next_link(v, h), n - 1)

\* the handles linked on list L (all of them: a walk repeats after NumVoices)
OnList(r, v, L) ==
    LET c == Chain(v, TOP(r, L), NumVoices)
    IN  {c[i] : i \in 1 .. Len(c)}

Reverse(q) == [i \in 1 .. Len(q) |-> q[Len(q) + 1 - i]]

(***************************************************************************)
(* The inputs the guest is given.                                          *)
(***************************************************************************)
ListSelectors == 0 .. 3

\* FEAV values: antecedent handle in bits 0..15, list selector in bits 16..17
AntecedentArgs ==
    {a : a \in HandleValues} \cup {L * 65536 : L \in 1 .. 3}

PauseArgs ==
    HandleValues \cup {h + NV1BA0_PIO_VOICE_PAUSE_ACTION : h \in Handles}

CurrentVoiceArgs == {1}

\* values written to ISTS and to IEN: the bits GINTSTS and FETINTSTS
IrqValues == {0, 1, 16, 17}

\* values written to the RST registers: every setting of GPRST and GPDSPRST,
\* and both set with GPNMI and GPABORT clear and set
RstValues == {0, 1, 2, 3, 15}

(***************************************************************************)
(* Scatter/gather DMA.  A transfer works on a record x: the guest RAM      *)
(* (ram: the bytes that differ from 0, by physical address), the caller's  *)
(* buffer (buf), the page size and RAM size of the build, the log of the   *)
(* linear calls made (segs) and halt.                                      *)
(***************************************************************************)
Min(a, b) == IF a < b THEN a ELSE b

\* one byte of guest RAM
ByteAt(ram, a) == IF a \in DOMAIN ram THEN ram[a] ELSE 0

\* ldl_le_phys(&address_space_memory, a)
ldl_le_phys(ram, a) ==
    ByteAt(ram, a) + 256 * ByteAt(ram, a + 1) + 65536 * ByteAt(ram, a + 2)
        + 16777216 * ByteAt(ram, a + 3)

\* a copy that forgets to advance ptr
memcpy_to_ram_noptr(ram, paddr, buf, ptr, n) ==
    [a \in DOMAIN ram \cup (paddr .. paddr + n - 1) |->
        IF a >= paddr /\ a < paddr + n THEN buf[(a - paddr) + 1]
        ELSE ram[a]]

\* memcpy(&d->ram_ptr[paddr], ptr, n): ptr is an offset into buf
memcpy_to_ram(ram, paddr, buf, ptr, n) ==
    [a \in DOMAIN ram \cup (paddr .. paddr + n - 1) |->
        IF a >= paddr /\ a < paddr + n THEN buf[ptr + (a - paddr) + 1]
        ELSE ram[a]]

\* memcpy(ptr, &d->ram_ptr[paddr], n)
memcpy_from_ram(buf, ptr, ram, paddr, n) ==
    [i \in 1 .. Len(buf) |->
        IF i > ptr /\ i <= ptr + n THEN ByteAt(ram, paddr + (i - ptr - 1))
        ELSE buf[i]]

\* the while loop of scatter_gather_rw
RECURSIVE sg_loop(_, _, _, _, _, _, _, _, _)
sg_loop(x, sge_base, max_sge, ptr, len, dir, page_entry, offset_in_page, bytes_to_copy) ==
    IF len = 0 \/ x.halt # "run" THEN x
    ELSE IF ~(page_entry <= max_sge) THEN Abort(x)
    ELSE
      LET prd_address == ldl_le_phys(x.ram, sge_base + page_entry * 8)
          paddr == prd_address + offset_in_page
          n == Min(bytes_to_copy, len)
      IN  IF ~(paddr + n < x.ram_size) THEN Abort(x)
          ELSE
            LET y == IF dir
                     THEN [x EXCEPT
                             !.ram = memcpy_to_ram(@, paddr, x.buf, ptr, n)]
                     ELSE [x EXCEPT
                             !.buf = memcpy_from_ram(@, ptr, x.ram, paddr, n)]
            IN  sg_loop(y, sge_base, max_sge, ptr + n, len - n, dir,
                        page_entry + 1, 0, x.page_size)

scatter_gather_rw(x, sge_base, max_sge, ptr, addr, len, dir) ==
    sg_loop(x, sge_base, max_sge, ptr, len, dir,
            addr \div x.page_size, addr % x.page_size,
            x.page_size - (addr % x.page_size))

\* a wrap that forgets the window's base
csg_wrap_zero(cur, base, end) == IF cur >= end THEN 0 ELSE cur

\* if (cur >= end) cur = base
csg_wrap(cur, base, end) == IF cur >= end THEN base ELSE cur

\* The while loop of circular_scatter_gather_rw; the result carries the
\* returned cur.  end - cur is unsigned: with cur > end it exceeds every len.
\* With cur = end = base the loop copies nothing and never ends.
RECURSIVE csg_loop(_, _, _, _, _, _, _, _, _)
csg_loop(x, sge_base, max_sge, ptr, base, end, cur, len, dir) ==
    IF len = 0 \/ x.halt # "run" THEN [x EXCEPT !.cur = cur]
    ELSE
      LET bytes_to_copy == IF cur > end THEN len ELSE Min(end - cur, len)
      IN  IF ~(cur >= base /\ cur + bytes_to_copy <= end)
          THEN [Abort(x) EXCEPT !.cur = cur]
          ELSE IF bytes_to_copy = 0 /\ base = end
          THEN [x EXCEPT !.halt = "hang", !.cur = cur]
          ELSE
            LET y == scatter_gather_rw(
                         [x EXCEPT !.segs = Append(@, [cur |-> cur, ptr |-> ptr,
                                                      n |-> bytes_to_copy])],
                         sge_base, max_sge, ptr, cur, bytes_to_copy, dir)
                c == cur + bytes_to_copy
            IN  IF y.halt # "run" THEN [y EXCEPT !.cur = cur]
                ELSE IF c >= end /\ c # end
                THEN [Abort(y) EXCEPT !.cur = c]
                ELSE csg_loop(y, sge_base, max_sge, ptr + bytes_to_copy,
                              base, end, csg_wrap(c, base, end),
                              len - bytes_to_copy, dir)

circular_scatter_gather_rw(x, sge_base, max_sge, base, end, cur, len, dir) ==
    csg_loop(x, sge_base, max_sge, 0, base, end, cur, len, dir)

(***************************************************************************)
(* Initial states.                                                         *)
(***************************************************************************)
NoRun == [list |-> 0, hs |-> <<>>]

NoWrite ==
    [region |-> "none", addr |-> 0, val |-> 0, size |-> 0, ists |-> 0,
     ien |-> 0]

NoRead ==
    [region |-> "none", addr |-> 0, size |-> 0, val |-> 0, follows |-> FALSE]

NoTransfer == [buf |-> <<>>, cur |-> 0, segs |-> <<>>]

\* byte j of the little-endian 32-bit word v
LE32(v, j) == (v \div Pow2(8 * j)) % 256

\* guest RAM that holds only a page table: entries[p + 1] is the address of
\* page p, the control word of every entry is 0
TableRam(sge_base, entries) ==
    [a \in sge_base .. sge_base + 8 * Len(entries) - 1 |->
        LET p == (a - sge_base) \div 8
            j == (a - sge_base) % 8
        IN  IF j < 4 THEN LE32(entries[p + 1], j) ELSE 0]

\* a DMA window with a buffer to transfer, before any transfer
DmaConfig(page_size, ram_size, max_sge, entries, base, end, cur, src) ==
    LET table == TableRam(0, entries)
    IN  [ram |-> table, ram0 |-> table,
         page_size |-> page_size, ram_size |-> ram_size,
         sge_base |-> 0, max_sge |-> max_sge,
         base |-> base, end |-> end, cur |-> cur, src |-> src,
         pc |-> "idle", wr |-> NoTransfer, rd |-> NoTransfer]

\* no DMA window is set up
NoDma == DmaConfig(TARGET_PAGE_SIZE, 2 * TARGET_PAGE_SIZE, 0, <<>>, 0, 0, 0,
                   <<>>)

\* the device as mcpx_apu_init leaves it: zeroed state, zeroed guest RAM
Init ==
    /\ regs = [a \in TopRegs |-> 0]
    /\ gp_regs = [a \in ProcRegs |-> 0]
    /\ ep_regs = [a \in ProcRegs |-> 0]
    /\ voices = [h \in Handles |-> [f \in VoiceFields |-> 0]]
    /\ far_voices = [h \in Handles |-> [f \in VoiceFields |-> 0]]
    /\ irq = FALSE
    /\ timer = FALSE
    /\ due = 0
    /\ dsp_calls = <<>>
    /\ halt = "run"
    /\ nsteps = 0
    /\ last_onoff = [h \in Handles |-> "none"]
    /\ relinked = FALSE
    /\ top_run = NoRun
    /\ rst_hist = [p \in Procs |-> <<>>]
    /\ last_write = NoWrite
    /\ last_read = NoRead
    /\ dma = NoDma

\* The registers after the guest's bring-up: 0xFFFF written to the three TOP
\* registers (empty lists), SECTL = 0x08 (the frame timer runs), FETFORCE1
\* written with the idle trap on or off, and one SET_ANTECEDENT_VOICE(feav).
EmptyLists(force1, feav) ==
    [a \in TopRegs |->
        CASE a \in {NV_PAPU_TVL2D, NV_PAPU_TVL3D, NV_PAPU_TVLMP} -> NULL_HANDLE
          [] a = NV_PAPU_SECTL -> 8
          [] a = NV_PAPU_FETFORCE1 -> force1
          [] a = NV_PAPU_FEAV -> feav
          [] a = NV_PAPU_FEDECMETH -> NV1BA0_PIO_SET_ANTECEDENT_VOICE
          [] a = NV_PAPU_FEDECPARAM -> feav
          [] OTHER -> 0]

InitVP ==
    /\ \E force1 \in {0, NV_PAPU_FETFORCE1_SE2FE_IDLE_VOICE} :
       \E feav \in AntecedentArgs :
          regs = EmptyLists(force1, feav)
    /\ gp_regs = [a \in ProcRegs |-> 0]
    /\ ep_regs = [a \in ProcRegs |-> 0]
    /\ voices = [h \in Handles |-> [f \in VoiceFields |-> 0]]
    /\ far_voices = [h \in Handles |-> [f \in VoiceFields |-> 0]]
    /\ irq = FALSE
    /\ timer = TRUE
    /\ due = FRAME_PERIOD_MS
    /\ dsp_calls = <<>>
    /\ halt = "run"
    /\ nsteps = 0
    /\ last_onoff = [h \in Handles |-> "none"]
    /\ relinked = FALSE
    /\ top_run = NoRun
    /\ rst_hist = [p \in Procs |-> <<>>]
    /\ last_write = NoWrite
    /\ last_read = NoRead
    /\ dma = NoDma

(***************************************************************************)
(* Actions: one per guest access and one for the frame timer.              *)
(***************************************************************************)
\* a guest write to the top region
TopWrite(addr, val, size) ==
    /\ halt = "run"
    /\ \E s \in {mcpx_apu_write(Dev, addr, val, size)} : Leaves(s)
    /\ top_run' = IF addr \in {NV_PAPU_TVL2D, NV_PAPU_TVL3D, NV_PAPU_TVLMP}
                  THEN NoRun ELSE top_run
    /\ last_write' = [region |-> "top", addr |-> addr, val |-> val,
                       size |-> size,
                       ists |-> regs[NV_PAPU_ISTS], ien |-> regs[NV_PAPU_IEN]]
    /\ last_read' = NoRead
    /\ UNCHANGED <<nsteps, last_onoff, relinked, rst_hist, dma>>

\* a 4-byte guest write to the top region
MmioWrite(addr, val) == TopWrite(addr, val, 4)

\* the read comes right after a write of the same shape to the same place
Follows(region, addr, size) ==
    /\ last_write.region = region
    /\ last_write.addr = addr
    /\ last_write.size = size

\* a guest read of the top region at virtual-clock time now
TopRead(addr, size, now) ==
    /\ halt = "run"
    /\ \E x \in {mcpx_apu_read(Dev, addr, size, now)} :
          /\ halt' = x.halt
          /\ last_read' = [region |-> "top", addr |-> addr, size |-> size,
                           val |-> x.r, follows |-> Follows("top", addr, size)]
    /\ last_write' = NoWrite
    /\ UNCHANGED <<regs, gp_regs, ep_regs, voices, far_voices, irq, timer,
                   due, dsp_calls, nsteps, last_onoff, relinked, top_run,
                   rst_hist, dma>>

\* the history of top inserts after a completed VOICE_ON(h)
RunAfter(h) ==
    LET list == GET_MASK(regs[NV_PAPU_FEAV], NV_PAPU_FEAV_LST)
    IN  IF list = NV1BA0_PIO_SET_ANTECEDENT_VOICE_LIST_INHERIT THEN NoRun
        ELSE IF /\ top_run.list = list
                /\ top_run.hs # <<>>
                /\ Len(top_run.hs) < MaxRun
        THEN [top_run EXCEPT !.hs = Append(@, h)]
        ELSE IF TOP(regs, list) = NULL_HANDLE
        THEN [list |-> list, hs |-> <<h>>]
        ELSE NoRun

\* a guest write to the VP window
VpWriteSized(addr, val, size) ==
    /\ halt = "run"
    /\ nsteps < MaxSteps
    /\ nsteps' = nsteps + 1
    /\ \E s \in {vp_write(Dev, addr, val, size)} :
        LET h == BitAnd(val, NV_PAPU_FEAV_VALUE)
            done == s.halt = "run"
        IN
        /\ Leaves(s)
        /\ last_onoff' =
              IF done /\ addr = NV1BA0_PIO_VOICE_ON
              THEN [last_onoff EXCEPT ![h] = "on"]
              ELSE IF done /\ addr = NV1BA0_PIO_VOICE_OFF
              THEN [last_onoff EXCEPT ![h] = "off"]
              ELSE last_onoff
        /\ relinked' =
              \/ relinked
              \/ /\ done
                 /\ addr = NV1BA0_PIO_VOICE_ON
                 /\ \E L \in 1 .. 3 : h \in OnList(regs, voices, L)
        /\ top_run' =
              IF done /\ addr = NV1BA0_PIO_VOICE_ON THEN RunAfter(h)
              ELSE top_run
        /\ last_write' = NoWrite
        /\ last_read' = NoRead
        /\ UNCHANGED <<rst_hist, dma>>

\* a 4-byte guest write to the VP window
VpWrite(addr, val) == VpWriteSized(addr, val, 4)

\* a guest read of the VP window
VpRead(addr, size) ==
    /\ halt = "run"
    /\ \E x \in {vp_read(Dev, addr, size)} :
          /\ halt' = x.halt
          /\ last_read' = [region |-> "vp", addr |-> addr, size |-> size,
                           val |-> x.r, follows |-> Follows("vp", addr, size)]
    /\ last_write' = NoWrite
    /\ UNCHANGED <<regs, gp_regs, ep_regs, voices, far_voices, irq, timer,
                   due, dsp_calls, nsteps, last_onoff, relinked, top_run,
                   rst_hist, dma>>

SetAntecedentVoice(arg) == VpWrite(NV1BA0_PIO_SET_ANTECEDENT_VOICE, arg)

VoiceOn(arg) == VpWrite(NV1BA0_PIO_VOICE_ON, arg)

VoiceOff(arg) == VpWrite(NV1BA0_PIO_VOICE_OFF, arg)

VoicePause(arg) == VpWrite(NV1BA0_PIO_VOICE_PAUSE, arg)

SetCurrentVoice(arg) == VpWrite(NV1BA0_PIO_SET_CURRENT_VOICE, arg)

\* GPRST and GPDSPRST are both set in v
BothSet(v) ==
    /\ BitAnd(v, NV_PAPU_GPRST_GPRST) # 0
    /\ BitAnd(v, NV_PAPU_GPRST_GPDSPRST) # 0

\* the last two RST writes of a processor, the newest last: whether the
\* register had both reset bits set before, the value written, the calls
\* made, and the most recent handshake call made up to this write
RstAfter(hist, old, val, calls) ==
    LET e == [ready |-> BothSet(old), val |-> val,
              calls |-> [i \in 1 .. Len(calls) |-> calls[i].op],
              last |-> IF calls # <<>> THEN calls[Len(calls)].op
                       ELSE IF hist = <<>> THEN "none"
                       ELSE hist[Len(hist)].last]
    IN  IF Len(hist) < 2 THEN Append(hist, e) ELSE <<hist[2], e>>

\* a guest write to the GP region
GpWriteSized(addr, val, size) ==
    /\ halt = "run"
    /\ \E s \in {gp_write(Dev, addr, val, size)} :
          /\ Leaves(s)
          /\ rst_hist' =
                IF addr = NV_PAPU_GPRST /\ s.halt = "run"
                THEN [rst_hist EXCEPT !["gp"] =
                         RstAfter(@, gp_regs[NV_PAPU_GPRST], val, s.calls)]
                ELSE rst_hist
    /\ last_write' = [region |-> "gp", addr |-> addr, val |-> val,
                       size |-> size,
                       ists |-> regs[NV_PAPU_ISTS], ien |-> regs[NV_PAPU_IEN]]
    /\ last_read' = NoRead
    /\ UNCHANGED <<nsteps, last_onoff, relinked, top_run, dma>>

\* a 4-byte guest write to the GP region
GpWrite(addr, val) == GpWriteSized(addr, val, 4)

\* a guest read of the GP region; mem is what the DSP memory holds
GpRead(addr, size, mem) ==
    /\ halt = "run"
    /\ \E x \in {gp_read(Dev, addr, size, mem)} :
          /\ halt' = x.halt
          /\ last_read' = [region |-> "gp", addr |-> addr, size |-> size,
                           val |-> x.r, follows |-> Follows("gp", addr, size)]
    /\ last_write' = NoWrite
    /\ UNCHANGED <<regs, gp_regs, ep_regs, voices, far_voices, irq, timer,
                   due, dsp_calls, nsteps, last_onoff, relinked, top_run,
                   rst_hist, dma>>

\* a guest write to the EP region
EpWriteSized(addr, val, size) ==
    /\ halt = "run"
    /\ \E s \in {ep_write(Dev, addr, val, size)} :
          /\ Leaves(s)
          /\ rst_hist' =
                IF addr = NV_PAPU_EPRST /\ s.halt = "run"
                THEN [rst_hist EXCEPT !["ep"] =
                         RstAfter(@, ep_regs[NV_PAPU_EPRST], val, s.calls)]
                ELSE rst_hist
    /\ last_write' = [region |-> "ep", addr |-> addr, val |-> val,
                       size |-> size,
                       ists |-> regs[NV_PAPU_ISTS], ien |-> regs[NV_PAPU_IEN]]
    /\ last_read' = NoRead
    /\ UNCHANGED <<nsteps, last_onoff, relinked, top_run, dma>>

\* a 4-byte guest write to the EP region
EpWrite(addr, val) == EpWriteSized(addr, val, 4)

\* a guest read of the EP region; mem is what the DSP memory holds
EpRead(addr, size, mem) ==
    /\ halt = "run"
    /\ \E x \in {ep_read(Dev, addr, size, mem)} :
          /\ halt' = x.halt
          /\ last_read' = [region |-> "ep", addr |-> addr, size |-> size,
                           val |-> x.r, follows |-> Follows("ep", addr, size)]
    /\ last_write' = NoWrite
    /\ UNCHANGED <<regs, gp_regs, ep_regs, voices, far_voices, irq, timer,
                   due, dsp_calls, nsteps, last_onoff, relinked, top_run,
                   rst_hist, dma>>

\* the frame timer fires
FrameTick ==
    /\ halt = "run"
    /\ timer
    /\ nsteps < MaxSteps
    /\ nsteps' = nsteps + 1
    /\ \E s \in {se_frame(Dev)} : Leaves(s)
    /\ last_write' = NoWrite
    /\ last_read' = NoRead
    /\ UNCHANGED <<last_onoff, relinked, top_run, rst_hist, dma>>

(***************************************************************************)
(* Specifications.                                                         *)
(***************************************************************************)
\* the voice lists: front-end methods and frame ticks from three empty lists
NextVP ==
    \/ \E arg \in AntecedentArgs : SetAntecedentVoice(arg)
    \/ \E arg \in HandleValues : VoiceOn(arg)
    \/ \E arg \in HandleValues : VoiceOff(arg)
    \/ \E arg \in PauseArgs : VoicePause(arg)
    \/ \E arg \in CurrentVoiceArgs : SetCurrentVoice(arg)
    \/ FrameTick

SpecVP == InitVP /\ [][NextVP]_vars

\* the interrupt arbiter: voice 0 on the 2D list with the idle trap enabled,
\* ISTS and IEN writes, frame ticks
InitIrq ==
    /\ InitVP
    /\ regs[NV_PAPU_FETFORCE1] = NV_PAPU_FETFORCE1_SE2FE_IDLE_VOICE
    /\ regs[NV_PAPU_FEAV] = 65536

NextIrq ==
    \/ \E w \in IrqValues : MmioWrite(NV_PAPU_ISTS, w)
    \/ \E v \in IrqValues : MmioWrite(NV_PAPU_IEN, v)
    \/ VoiceOn(0)
    \/ VoiceOff(0)
    \/ FrameTick

SpecIrq == InitIrq /\ [][NextIrq]_vars

\* the reset handshake: RST writes of both processors, frame ticks
InitProc ==
    /\ InitVP
    /\ regs[NV_PAPU_FETFORCE1] = NV_PAPU_FETFORCE1_SE2FE_IDLE_VOICE
    /\ regs[NV_PAPU_FEAV] = 65536

NextProc ==
    \/ \E v \in RstValues : GpWrite(NV_PAPU_GPRST, v)
    \/ \E v \in RstValues : EpWrite(NV_PAPU_EPRST, v)
    \/ FrameTick

SpecProc == InitProc /\ [][NextProc]_vars

\* 4-byte register accesses in the top, GP and EP regions, from construction
MmioValues == {0, 3}

\* top-region addresses: a plain word, the magic write, the last word, the
\* two special registers and a word above the array
MmioTopAddrs ==
    {NV_PAPU_IEN, NV_PAPU_FEMEMDATA, TOP_REGS_SIZE - 4, NV_PAPU_ISTS,
     NV_PAPU_XGSCNT, 2 * TOP_REGS_SIZE}

\* GP addresses: RST, an unaligned word, DSP memory
MmioGpAddrs == {NV_PAPU_GPRST, NV_PAPU_GPPMEM - 3, NV_PAPU_GPMIXBUF}

\* EP addresses: a plain word, DSP memory
MmioEpAddrs == {NV_PAPU_EPPMEM - 4, NV_PAPU_EPPMEM}

\* the virtual clock in ns
ClockValues == {0, 250}

\* the words that the DSP memory returns
DspWords == {0, 5}

NextMmio ==
    \/ \E a \in MmioTopAddrs \ {NV_PAPU_XGSCNT}, v \in MmioValues :
          MmioWrite(a, v)
    \/ \E a \in MmioTopAddrs, now \in ClockValues : TopRead(a, 4, now)
    \/ \E a \in MmioGpAddrs, v \in MmioValues :
          GpWrite(a, v)
    \/ \E a \in MmioGpAddrs, mem \in DspWords :
          GpRead(a, 4, mem)
    \/ \E a \in MmioEpAddrs, v \in MmioValues :
          EpWrite(a, v)
    \/ \E a \in MmioEpAddrs, mem \in DspWords :
          EpRead(a, 4, mem)

SpecMmio == Init /\ [][NextMmio]_vars

\* virtual time passes without reaching the deadline of the frame timer
Elapse(dt) ==
    /\ halt = "run"
    /\ timer
    /\ dt < due
    /\ due' = due - dt
    /\ last_write' = NoWrite
    /\ last_read' = NoRead
    /\ UNCHANGED <<regs, gp_regs, ep_regs, voices, far_voices, irq, timer,
                   dsp_calls, halt, nsteps, last_onoff, relinked, top_run,
                   rst_hist, dma>>

\* bring-up from construction: the voice base, the counter mode, the list
\* heads, the GP reset register, time and frame ticks
SectlValues == {0, 7, 8, 24}

ElapseSteps == {4}

NextBringUp ==
    \/ \E b \in VpvBases : MmioWrite(NV_PAPU_VPVADDR, b)
    \/ \E v \in SectlValues : MmioWrite(NV_PAPU_SECTL, v)
    \/ \E list \in 0 .. 2 : MmioWrite(voice_list_regs[list].top, NULL_HANDLE)
    \/ \E v \in {0, 3} : GpWrite(NV_PAPU_GPRST, v)
    \/ \E dt \in ElapseSteps : Elapse(dt)
    \/ FrameTick

SpecBringUp == Init /\ [][NextBringUp]_vars

\* the walk of the lists: lists filled by top inserts, then VOICE_OFF methods
\* and frame ticks.  A setup is the list selector and the handle of each
\* insert, SET_ANTECEDENT_VOICE(L) and VOICE_ON(h): any handles, the first
\* j of them on the 2D list and the others on the MP list.
Setups ==
    UNION {{[i \in 1 .. k |-> <<IF i <= j THEN 1 ELSE 3, hs[i]>>] :
               hs \in [1 .. k -> Handles], j \in 0 .. k} :
           k \in 0 .. MaxSetup}

\* the device after the guest's bring-up with the idle trap on
BroughtUp ==
    [regs |-> EmptyLists(NV_PAPU_FETFORCE1_SE2FE_IDLE_VOICE, 65536),
     gp_regs |-> [a \in ProcRegs |-> 0], ep_regs |-> [a \in ProcRegs |-> 0],
     voices |-> [h \in Handles |-> [f \in VoiceFields |-> 0]],
     far_voices |-> [h \in Handles |-> [f \in VoiceFields |-> 0]],
     irq |-> FALSE, timer |-> TRUE, due |-> FRAME_PERIOD_MS, calls |-> <<>>,
     visits |-> <<>>, halt |-> "run"]

\* the device after the methods of a setup, with the history they leave
RECURSIVE Populate(_, _)
Populate(x, setup) ==
    IF setup = <<>> THEN x
    ELSE LET L == Head(setup)[1]
             h == Head(setup)[2]
             s1 == fe_method(x.s, NV1BA0_PIO_SET_ANTECEDENT_VOICE, L * 65536)
             s2 == fe_method(s1, NV1BA0_PIO_VOICE_ON, h)
         IN  Populate(
               [s |-> s2,
                relinked |->
                   \/ x.relinked
                   \/ \E M \in 1 .. 3 : h \in OnList(s1.regs, s1.voices, M),
                last_onoff |-> [x.last_onoff EXCEPT ![h] = "on"]],
               Tail(setup))

InitWalk ==
    /\ \E setup \in Setups :
          \E x \in {Populate([s |-> BroughtUp, relinked |-> FALSE,
                               last_onoff |-> [h \in Handles |-> "none"]],
                              setup)} :
             /\ regs = x.s.regs
             /\ voices = x.s.voices
             /\ relinked = x.relinked
             /\ last_onoff = x.last_onoff
    /\ gp_regs = [a \in ProcRegs |-> 0]
    /\ ep_regs = [a \in ProcRegs |-> 0]
    /\ far_voices = [h \in Handles |-> [f \in VoiceFields |-> 0]]
    /\ irq = FALSE
    /\ timer = TRUE
    /\ due = FRAME_PERIOD_MS
    /\ dsp_calls = <<>>
    /\ halt = "run"
    /\ nsteps = 0
    /\ top_run = NoRun
    /\ rst_hist = [p \in Procs |-> <<>>]
    /\ last_write = NoWrite
    /\ last_read = NoRead
    /\ dma = NoDma

NextWalk ==
    \/ \E h \in Handles : VoiceOff(h)
    \/ FrameTick

SpecWalk == InitWalk /\ [][NextWalk]_vars

\* accesses of size 2 and 4, aligned and not, in the four regions
MmioSizes == {2, 4}

ShapeTopAddrs == {NV_PAPU_IEN, NV_PAPU_IEN + 2}

ShapeVpAddrs == {NV1BA0_PIO_FREE, NV1BA0_PIO_VOICE_OFF}

ShapeProcAddrs == {NV_PAPU_GPPMEM - 4, NV_PAPU_GPPMEM - 3}

NextShape ==
    \/ \E a \in ShapeTopAddrs, v \in MmioValues, z \in MmioSizes :
          TopWrite(a, v, z)
    \/ \E a \in ShapeTopAddrs, z \in MmioSizes : TopRead(a, z, 0)
    \/ \E a \in ShapeVpAddrs, z \in MmioSizes : VpWriteSized(a, 0, z)
    \/ \E a \in ShapeVpAddrs, z \in MmioSizes : VpRead(a, z)
    \/ \E a \in ShapeProcAddrs, v \in MmioValues, z \in MmioSizes :
          GpWriteSized(a, v, z)
    \/ \E a \in ShapeProcAddrs, z \in MmioSizes : GpRead(a, z, 0)
    \/ \E a \in ShapeProcAddrs, v \in MmioValues, z \in MmioSizes :
          EpWriteSized(a, v, z)
    \/ \E a \in ShapeProcAddrs, z \in MmioSizes : EpRead(a, z, 0)

SpecShape == Init /\ [][NextShape]_vars

\* the whole device from construction
Next ==
    \/ \E addr \in {NV_PAPU_ISTS, NV_PAPU_IEN} :
          \E v \in IrqValues : MmioWrite(addr, v)
    \/ \E v \in {0, 8} : MmioWrite(NV_PAPU_SECTL, v)
    \/ \E v \in {0, NV_PAPU_FETFORCE1_SE2FE_IDLE_VOICE} :
          MmioWrite(NV_PAPU_FETFORCE1, v)
    \/ \E addr \in {NV_PAPU_TVL2D, NV_PAPU_TVL3D, NV_PAPU_TVLMP} :
          \E v \in HandleValues : MmioWrite(addr, v)
    \/ NextVP
    \/ NextProc

Spec == Init /\ [][Next]_vars

\* the bytes a transfer moves
BufBytes == {1, 2}

\* the buffers of at most n bytes
Bufs(n) == UNION {[1 .. k -> BufBytes] : k \in 0 .. n}

\* Page addresses of the small configurations: page 0 at 16 (after the two
\* table entries), over the table itself, or at the end of RAM; page 1 after
\* page 0 or over it.
SmallTables ==
    {<<e0, e1>> : e0 \in {0, 16, SmallRam - SmallPage},
                  e1 \in {16, 16 + SmallPage}}

\* the windows base <= cur < end over two small pages, as <<base, cur, end>>
SmallWindows ==
    {w \in (0 .. 2 * SmallPage - 1) \X (0 .. 2 * SmallPage - 1)
              \X (1 .. 2 * SmallPage) : w[1] <= w[2] /\ w[2] < w[3]}

\* every small window with every buffer and page table
SmallConfigs ==
    {DmaConfig(SmallPage, SmallRam, max_sge, entries, w[1], w[3], w[2], src) :
        max_sge \in {0, 1}, entries \in SmallTables,
        w \in SmallWindows, src \in Bufs(MaxLen)}

\* the window and the pattern of scenario S6, in page 0 of a build-size page
ConfigS6 ==
    DmaConfig(TARGET_PAGE_SIZE, 2 * TARGET_PAGE_SIZE, 0, <<TARGET_PAGE_SIZE>>,
              256, 320, 304, [i \in 1 .. 32 |-> i])

\* a window base <= cur < end is set up; the device is as constructed
InitDma ==
    /\ regs = [a \in TopRegs |-> 0]
    /\ gp_regs = [a \in ProcRegs |-> 0]
    /\ ep_regs = [a \in ProcRegs |-> 0]
    /\ voices = [h \in Handles |-> [f \in VoiceFields |-> 0]]
    /\ far_voices = [h \in Handles |-> [f \in VoiceFields |-> 0]]
    /\ irq = FALSE
    /\ timer = FALSE
    /\ due = 0
    /\ dsp_calls = <<>>
    /\ halt = "run"
    /\ nsteps = 0
    /\ last_onoff = [h \in Handles |-> "none"]
    /\ relinked = FALSE
    /\ top_run = NoRun
    /\ rst_hist = [p \in Procs |-> <<>>]
    /\ last_write = NoWrite
    /\ last_read = NoRead
    /\ dma \in SmallConfigs \cup {ConfigS6}

\* one circular transfer of Len(buf) bytes from dma.cur
Transfer(buf, dir) ==
    circular_scatter_gather_rw(
        [ram |-> dma.ram, buf |-> buf, page_size |-> dma.page_size,
         ram_size |-> dma.ram_size, segs |-> <<>>, cur |-> dma.cur,
         halt |-> "run"],
        dma.sge_base, dma.max_sge, dma.base, dma.end, dma.cur, Len(buf), dir)

\* a circular write of the buffer into the window
CircularWrite ==
    /\ halt = "run"
    /\ dma.pc = "idle"
    /\ \E x \in {Transfer(dma.src, TRUE)} :
          /\ dma' = [dma EXCEPT !.ram = x.ram, !.pc = "written",
                                 !.wr = [buf |-> x.buf, cur |-> x.cur,
                                         segs |-> x.segs]]
          /\ halt' = x.halt
    /\ UNCHANGED <<regs, gp_regs, ep_regs, voices, far_voices, irq, timer,
                   due, dsp_calls, nsteps, last_onoff, relinked, top_run,
                   rst_hist, last_write, last_read>>

\* a circular read of as many bytes from the same cur
CircularRead ==
    /\ halt = "run"
    /\ dma.pc = "written"
    /\ \E x \in {Transfer([i \in 1 .. Len(dma.src) |-> 0], FALSE)} :
          /\ dma' = [dma EXCEPT !.ram = x.ram, !.pc = "read",
                                 !.rd = [buf |-> x.buf, cur |-> x.cur,
                                         segs |-> x.segs]]
          /\ halt' = x.halt
    /\ UNCHANGED <<regs, gp_regs, ep_regs, voices, far_voices, irq, timer,
                   due, dsp_calls, nsteps, last_onoff, relinked, top_run,
                   rst_hist, last_write, last_read>>

NextDma ==
    \/ CircularWrite
    \/ CircularRead

SpecDma == InitDma /\ [][NextDma]_vars


(***************************************************************************)
(* Properties of the voice lists (checked under SpecVP).                   *)
(***************************************************************************)
\* the list selector and the antecedent handle held in FEAV
FeavList(r) == GET_MASK(r[NV_PAPU_FEAV], NV_PAPU_FEAV_LST)

FeavHandle(r) == GET_MASK(r[NV_PAPU_FEAV], NV_PAPU_FEAV_VALUE)

Distinct(q) == \A i, j \in 1 .. Len(q) : i # j => q[i] # q[j]

\* the lists on which handle h is linked
ListsOf(h) == {L \in 1 .. 3 : h \in OnList(regs, voices, L)}

\* C1: when FEAV selects list L in 1..3 and TOP[L] is the null handle,
\* VOICE_ON(h) completes and leaves TOP[L] = h, next_link(h) = 0xFFFF and
\* Active(h) = 1, and the TOP registers of the other two lists as they were.
C1_TopInsertIntoEmptyList ==
    [][\A L \in 1 .. 3 :
          (FeavList(regs) = L /\ TOP(regs, L) = NULL_HANDLE) =>
              \A h \in Handles :
                  VoiceOn(h) =>
                      /\ halt' = "run"
                      /\ TOP(regs', L) = h
                      /\ next_link(voices', h) = NULL_HANDLE
                      /\ Active(voices', h) = 1
                      /\ \A M \in (1 .. 3) \ {L} :
                            TOP(regs', M) = TOP(regs, M)]_vars

\* C1 happens: the last method was a VOICE_ON(h) that put h on top of a list
\* that was empty, and h is now its only voice.
C1_Witness ==
    \E h \in Handles : \E L \in 1 .. 3 :
        /\ halt = "run"
        /\ regs[NV_PAPU_FEDECMETH] = NV1BA0_PIO_VOICE_ON
        /\ regs[NV_PAPU_FEDECPARAM] = h
        /\ top_run = [list |-> L, hs |-> <<h>>]
        /\ TOP(regs, L) = h
        /\ next_link(voices, h) = NULL_HANDLE
        /\ Active(voices, h) = 1

\* C2 as stated: after any three consecutive top inserts h1, h2, h3 into a
\* list that was empty, the walk from TOP yields h3, h2, h1 and then the
\* null handle.
C2_AnyThreeTopInserts ==
    Len(top_run.hs) = 3 =>
        Chain(voices, TOP(regs, top_run.list), 4) = Reverse(top_run.hs)

\* C2 amended: after a run of top inserts of pairwise distinct handles into a
\* list that was empty (three of them in particular), the walk from TOP yields
\* the handles newest first and then the null handle.
C2_DistinctTopInserts ==
    (top_run.hs # <<>> /\ Distinct(top_run.hs)) =>
        Chain(voices, TOP(regs, top_run.list), Len(top_run.hs) + 1)
            = Reverse(top_run.hs)

\* C2 happens: three distinct handles were inserted on top of one list.
C2_Witness ==
    /\ halt = "run"
    /\ Len(top_run.hs) = 3
    /\ Distinct(top_run.hs)
    /\ TOP(regs, top_run.list) = top_run.hs[3]

\* the effect C3 states for VOICE_ON(h) after antecedent a
InsertedAfter(a, h) ==
    /\ halt' = "run"
    /\ next_link(voices', a) = h
    /\ next_link(voices', h) = next_link(voices, a)
    /\ \A L \in 1 .. 3 : TOP(regs', L) = TOP(regs, L)

\* C3 as stated: with list selector 0 and antecedent a # 0xFFFF, VOICE_ON(h)
\* of any handle h gives next_link(a) = h and next_link(h) = the old
\* next_link(a), all TOP registers unchanged.
C3_InsertAfterAnyHandle ==
    [][(/\ FeavList(regs) = NV1BA0_PIO_SET_ANTECEDENT_VOICE_LIST_INHERIT
        /\ FeavHandle(regs) # NULL_HANDLE)
       => \A h \in Handles :
              VoiceOn(h) => InsertedAfter(FeavHandle(regs), h)]_vars

\* C3 amended: the same for every handle h other than the antecedent itself.
C3_InsertAfterOtherHandle ==
    [][(/\ FeavList(regs) = NV1BA0_PIO_SET_ANTECEDENT_VOICE_LIST_INHERIT
        /\ FeavHandle(regs) # NULL_HANDLE)
       => \A h \in Handles \ {FeavHandle(regs)} :
              VoiceOn(h) => InsertedAfter(FeavHandle(regs), h)]_vars

\* C3 happens (scenario S3): a is the top of the 3D list, the last method was
\* VOICE_ON(h) with FEAV = inherit after a, and the list now reads a, h.
C3_Witness ==
    \E a \in Handles : \E h \in Handles \ {a} :
        /\ halt = "run"
        /\ regs[NV_PAPU_FEDECMETH] = NV1BA0_PIO_VOICE_ON
        /\ regs[NV_PAPU_FEDECPARAM] = h
        /\ regs[NV_PAPU_FEAV] = a
        /\ TOP(regs, 2) = a
        /\ next_link(voices, a) = h
        /\ next_link(voices, h) = NULL_HANDLE

\* C4 as stated: every handle is linked on at most one of the three lists.
C4_AtMostOneList ==
    \A h \in Handles : Cardinality(ListsOf(h)) <= 1

\* C4 amended: as long as no VOICE_ON has named a handle that was linked on a
\* list at that moment, every handle is linked on at most one list.
C4_AtMostOneListUnlessRelinked ==
    ~relinked => \A h \in Handles : Cardinality(ListsOf(h)) <= 1

\* C4 happens: two lists hold voices and no linked handle was named again.
C4_Witness ==
    /\ halt = "run"
    /\ ~relinked
    /\ \E L, M \in 1 .. 3 :
          /\ L # M
          /\ OnList(regs, voices, L) # {}
          /\ OnList(regs, voices, M) # {}

\* C5: a voice's Active bit is 1 exactly when the most recent of the
\* VOICE_ON / VOICE_OFF methods applied to its handle was VOICE_ON; no other
\* method and no frame tick changes it.
C5_ActiveIffLastOn ==
    \A h \in Handles : (Active(voices, h) = 1) <=> (last_onoff[h] = "on")

\* C5 happens: a voice was switched on, then paused, and a frame tick has
\* just run over it; its Active bit is still set.
C5_Witness ==
    \E h \in Handles :
        /\ halt = "run"
        /\ last_onoff[h] = "on"
        /\ Paused(voices, h) = 1
        /\ dsp_calls # <<>>
        /\ Active(voices, h) = 1

(***************************************************************************)
(* Properties of the interrupt arbiter (checked under SpecIrq).            *)
(***************************************************************************)
\* the single bits of the status values the device and the guest use
StatusBits == {Pow2(k) : k \in 0 .. 4}

HasBit(v, b) == BitAnd(v, b) # 0

\* write-one-to-clear for bit b of ISTS over a step that writes w
W1C(b, w) ==
    HasBit(regs[NV_PAPU_ISTS], b) =>
        (~HasBit(regs'[NV_PAPU_ISTS], b) <=> HasBit(w, b))

\* update_irq's condition on status bits ists and enable bits ien
Pending(ists, ien) ==
    /\ HasBit(ien, NV_PAPU_ISTS_GINTSTS)
    /\ BitAnd(BitClear(ists, NV_PAPU_ISTS_GINTSTS), ien) # 0

\* GINTSTS and the interrupt line after a step are both on / both off
LineIs(on) ==
    /\ HasBit(regs'[NV_PAPU_ISTS], NV_PAPU_ISTS_GINTSTS) = on
    /\ irq' = on

\* C6 as stated: for every write w to ISTS and every bit set in ISTS before
\* it, GINTSTS included, the bit is clear afterwards iff w has that bit.
C6_W1CEveryBit ==
    [][\A w \in IrqValues :
          MmioWrite(NV_PAPU_ISTS, w) => \A b \in StatusBits : W1C(b, w)]_vars

\* C6 amended: for every write w to ISTS and every bit other than GINTSTS
\* set in ISTS before it, the bit is clear afterwards iff w has that bit.
C6_W1CExceptGINTSTS ==
    [][\A w \in IrqValues :
          MmioWrite(NV_PAPU_ISTS, w) =>
              \A b \in StatusBits \ {NV_PAPU_ISTS_GINTSTS} : W1C(b, w)]_vars

\* C6 happens: the last write went to ISTS while FETINTSTS was pending,
\* named that bit, and the bit is now clear.
C6_Witness ==
    /\ last_write.addr = NV_PAPU_ISTS
    /\ HasBit(last_write.ists, NV_PAPU_ISTS_FETINTSTS)
    /\ HasBit(last_write.val, NV_PAPU_ISTS_FETINTSTS)
    /\ ~HasBit(regs[NV_PAPU_ISTS], NV_PAPU_ISTS_FETINTSTS)

\* C7: after every write w to ISTS the status bits other than GINTSTS are
\* old & ~w, and GINTSTS is 1 and the line asserted exactly when IEN.GINTSTS
\* is set and (ISTS & ~GINTSTS) & IEN # 0, else GINTSTS is 0 and the line
\* deasserted; with ISTS = 0x11 a write of 0x10 leaves 0x01 or 0x00.
C7_IstsWriteArbitration ==
    [][\A w \in IrqValues :
          MmioWrite(NV_PAPU_ISTS, w) =>
              LET rest == BitClear(BitClear(regs[NV_PAPU_ISTS], w),
                                   NV_PAPU_ISTS_GINTSTS)
              IN  /\ BitClear(regs'[NV_PAPU_ISTS], NV_PAPU_ISTS_GINTSTS) = rest
                  /\ LineIs(Pending(rest, regs[NV_PAPU_IEN]))
                  /\ (regs[NV_PAPU_ISTS] = 17 /\ w = 16)
                        => regs'[NV_PAPU_ISTS] \in {0, 1}]_vars

\* C7 happens (scenario S5): ISTS was 0x11, the guest wrote 0x10, and both
\* the status register and the line are now clear.
C7_Witness ==
    /\ last_write.addr = NV_PAPU_ISTS
    /\ last_write.ists = 17
    /\ last_write.val = 16
    /\ regs[NV_PAPU_ISTS] \in {0, 1}
    /\ ~irq

\* C8: whenever a guest write changes IEN, right after it GINTSTS is set and
\* the line asserted if the new IEN has GINTSTS and (ISTS & ~GINTSTS) & IEN
\* # 0, and otherwise GINTSTS is clear and the line deasserted.
C8_IenWriteReevaluates ==
    [][\A v \in IrqValues :
          (MmioWrite(NV_PAPU_IEN, v) /\ v # regs[NV_PAPU_IEN]) =>
              LineIs(Pending(regs[NV_PAPU_ISTS], v))]_vars

(***************************************************************************)
(* Properties of the reset handshake (checked under SpecProc).             *)
(***************************************************************************)
\* the calls the handshake rule prescribes for old value o and new value v
RstRule(o, v) ==
    IF ~BothSet(v) THEN <<"reset">>
    ELSE IF ~BothSet(o) THEN <<"bootstrap">>
    ELSE <<>>

\* the step made exactly the calls of the rule, all on processor p
RstCalls(p, o, v) ==
    dsp_calls' = [i \in 1 .. Len(RstRule(o, v)) |->
                     [dsp |-> p, op |-> RstRule(o, v)[i]]]

\* the calls made by the last two RST writes of processor p
LastTwoCalls(p) == rst_hist[p][1].calls \o rst_hist[p][2].calls

\* the last two RST writes of processor p both had GPRST and GPDSPRST set
TwoReadyWrites(p) ==
    /\ Len(rst_hist[p]) = 2
    /\ BothSet(rst_hist[p][1].val)
    /\ BothSet(rst_hist[p][2].val)

\* C9: a write of v to a processor's RST register holding o calls reset() on
\* that processor if v has GPRST or GPDSPRST cleared, else bootstrap() if o
\* had either cleared, else nothing; exactly one of the three happens, the
\* other processor is untouched, and the register then holds v.
C9_ResetRule ==
    [][\A v \in RstValues :
          /\ GpWrite(NV_PAPU_GPRST, v) =>
                /\ RstCalls("gp", gp_regs[NV_PAPU_GPRST], v)
                /\ gp_regs'[NV_PAPU_GPRST] = v
                /\ UNCHANGED <<ep_regs, regs, voices, irq>>
          /\ EpWrite(NV_PAPU_EPRST, v) =>
                /\ RstCalls("ep", ep_regs[NV_PAPU_EPRST], v)
                /\ ep_regs'[NV_PAPU_EPRST] = v
                /\ UNCHANGED <<gp_regs, regs, voices, irq>>]_vars

\* C9 happens: the EP was taken out of reset by the last write, which called
\* bootstrap() on it, while the GP is still held in reset.
C9_Witness ==
    /\ dsp_calls = <<[dsp |-> "ep", op |-> "bootstrap"]>>
    /\ BothSet(ep_regs[NV_PAPU_EPRST])
    /\ ~BothSet(gp_regs[NV_PAPU_GPRST])
    /\ Len(rst_hist["gp"]) > 0

\* C10 as stated: in any state, two consecutive RST writes of a processor
\* that both have GPRST and GPDSPRST set make exactly one bootstrap() call
\* and no reset() call.
C10_AlwaysOneBootstrap ==
    \A p \in Procs : TwoReadyWrites(p) => LastTwoCalls(p) = <<"bootstrap">>

\* C10 amended: two such writes make no reset() call, and exactly one
\* bootstrap() call if the register had GPRST or GPDSPRST cleared before the
\* first of them, none if it had both set.
C10_OneBootstrapFromReset ==
    \A p \in Procs :
        TwoReadyWrites(p) =>
            LastTwoCalls(p) =
                IF rst_hist[p][1].ready THEN <<>> ELSE <<"bootstrap">>

\* C10 happens: a processor held in reset received two writes with both
\* reset bits set that differ in GPNMI / GPABORT.
C10_Witness ==
    \E p \in Procs :
        /\ TwoReadyWrites(p)
        /\ ~rst_hist[p][1].ready
        /\ rst_hist[p][1].val # rst_hist[p][2].val

(***************************************************************************)
(* Properties of the circular DMA (checked under SpecDma).                 *)
(***************************************************************************)
\* the logical address and the buffer index of every byte that a sequence
\* of linear calls moves, in the order moved
RECURSIVE SegBytes(_)
SegBytes(segs) ==
    IF segs = <<>> THEN <<>>
    ELSE [i \in 1 .. Head(segs).n |->
             [addr |-> Head(segs).cur + i - 1, k |-> Head(segs).ptr + i - 1]]
         \o SegBytes(Tail(segs))

\* the logical address of byte k of a transfer that starts at dma.cur
WrapAddr(k) ==
    dma.base + ((dma.cur - dma.base + k) % (dma.end - dma.base))

\* the physical address of logical address a under the page table as set up
PhysOf(a) ==
    ldl_le_phys(dma.ram0, dma.sge_base + (a \div dma.page_size) * 8)
        + (a % dma.page_size)

\* the logical addresses a transfer of dma.src touches
Touched == {WrapAddr(k) : k \in 0 .. Len(dma.src) - 1}

\* the bytes of the page-table entries that the touched addresses use
TableBytes ==
    {dma.sge_base + (a \div dma.page_size) * 8 + j :
        a \in Touched, j \in 0 .. 3}

\* the transfer fits the window and the page table maps the touched
\* addresses to as many physical bytes, none of them in the entries used
Separate ==
    /\ Len(dma.src) <= dma.end - dma.base
    /\ Cardinality({PhysOf(a) : a \in Touched}) = Cardinality(Touched)
    /\ {PhysOf(a) : a \in Touched} \cap TableBytes = {}

\* the write and the read have both completed
RoundTripDone == dma.pc = "read" /\ halt = "run"

\* C11 as stated: for any window base <= cur < end and any byte count n, a
\* circular write of n bytes at cur followed by a circular read of n bytes
\* at the same cur returns the bytes written, and both return the same cur.
C11_RoundTripAnyCount ==
    RoundTripDone => (dma.rd.buf = dma.src /\ dma.rd.cur = dma.wr.cur)

\* C11 amended: the same for every byte count n <= end - base, when the page
\* table maps the n addresses to n distinct physical bytes outside the table
\* entries used and both transfers complete.
C11_RoundTripWithinWindow ==
    (RoundTripDone /\ Separate) =>
        (dma.rd.buf = dma.src /\ dma.rd.cur = dma.wr.cur)

\* C11 happens: a transfer that fills its window, wraps and crosses a page
\* was written and read back.
C11_Witness ==
    /\ RoundTripDone
    /\ Separate
    /\ Len(dma.src) = MaxLen
    /\ dma.end - dma.base = MaxLen
    /\ Len(dma.wr.segs) = 2
    /\ dma.base < dma.page_size
    /\ dma.end > dma.page_size
    /\ dma.rd.buf = dma.src

\* C12: for base <= cur < end a circular transfer of len bytes moves byte k
\* at logical address base + ((cur - base + k) mod (end - base)), in order,
\* and when it completes returns base + ((cur - base + len) mod (end - base)),
\* which lies in [base, end).  In S6 (base 0x100, end 0x140, cur 0x130, len
\* 0x20) bytes 0..15 land in [0x130, 0x140), bytes 16..31 in [0x100, 0x110),
\* and the new cur is 0x110.
C12_CircularWrap ==
    dma.pc # "idle" =>
        LET moved == SegBytes(dma.wr.segs)
        IN  /\ Len(moved) <= Len(dma.src)
            /\ \A i \in 1 .. Len(moved) :
                  moved[i] = [addr |-> WrapAddr(i - 1), k |-> i - 1]
            /\ (halt = "run" \/ dma.pc = "read") =>
                  /\ Len(moved) = Len(dma.src)
                  /\ dma.wr.cur = WrapAddr(Len(dma.src))
                  /\ dma.base <= dma.wr.cur
                  /\ dma.wr.cur < dma.end
            /\ (dma.base = 256 /\ dma.end = 320 /\ dma.cur = 304
                  /\ Len(dma.src) = 32) =>
                  /\ dma.wr.cur = 272
                  /\ \A k \in 0 .. 15 :
                        /\ dma.ram[PhysOf(304 + k)] = dma.src[k + 1]
                        /\ dma.ram[PhysOf(256 + k)] = dma.src[k + 17]

\* C12 happens: the S6 transfer was made, in two linear calls.
C12_Witness ==
    /\ halt = "run"
    /\ dma.pc = "written"
    /\ dma.base = 256
    /\ dma.end = 320
    /\ dma.cur = 304
    /\ Len(dma.src) = 32
    /\ dma.wr.cur = 272
    /\ dma.wr.segs = <<[cur |-> 304, ptr |-> 0, n |-> 16],
                       [cur |-> 256, ptr |-> 16, n |-> 16]>>



(***************************************************************************)
(* C13: plain storage.                                                     *)
(***************************************************************************)
\* the top-region addresses that are plain storage
PlainTop(a) ==
    /\ a < TOP_REGS_SIZE
    /\ a % 4 = 0
    /\ a \notin {NV_PAPU_ISTS, NV_PAPU_XGSCNT}

\* the GP or EP addresses outside the DSP memory windows
PlainProc(windows, a) == ~InWindow(windows, a)

\* the access that last_write or last_read records is to plain storage
PlainAccess(acc) ==
    /\ acc.size = 4
    /\ \/ (acc.region = "top" /\ PlainTop(acc.addr))
       \/ (acc.region = "gp" /\ PlainProc(GpWindows, acc.addr))
       \/ (acc.region = "ep" /\ PlainProc(EpWindows, acc.addr))

\* every register of the three files except the one at a of the region
OthersKept(region, a) ==
    /\ \A b \in TopRegs : (region = "top" /\ b = a) \/ regs'[b] = regs[b]
    /\ \A b \in ProcRegs :
          (region = "gp" /\ b = a) \/ gp_regs'[b] = gp_regs[b]
    /\ \A b \in ProcRegs :
          (region = "ep" /\ b = a) \/ ep_regs'[b] = ep_regs[b]

\* C13: a 4-byte write of v to a plain-storage address (top region below
\* 0x20000 except ISTS and XGSCNT; GP and EP outside the DSP memory windows,
\* RST included) changes no other register, and a 4-byte read of the same
\* address right after it returns v.  (An unaligned GP or EP write aborts, so
\* that no read follows it.)
C13_ReadAfterWrite ==
    [][/\ last_write'.region # "none" /\ PlainAccess(last_write')
          => OthersKept(last_write'.region, last_write'.addr)
       /\ last_read'.follows /\ PlainAccess(last_read')
          => last_read'.val = last_write.val]_vars

\* a read of GP RST right after the write of 3 to it, and IEN holds 3 too
C13_Witness ==
    /\ last_read.follows
    /\ last_read.region = "gp"
    /\ last_read.addr = NV_PAPU_GPRST
    /\ last_read.size = 4
    /\ last_read.val = 3
    /\ regs[NV_PAPU_IEN] = 3


(***************************************************************************)
(* C14: bring-up.                                                          *)
(***************************************************************************)
\* the state after construction and the three writes of S1, nothing else
S1State ==
    /\ halt = "run"
    /\ regs = [r \in TopRegs |->
                  CASE r = NV_PAPU_VPVADDR -> 1048576
                    [] r = NV_PAPU_SECTL -> 8
                    [] OTHER -> 0]
    /\ gp_regs = [r \in ProcRegs |-> IF r = NV_PAPU_GPRST THEN 3 ELSE 0]
    /\ ep_regs = [r \in ProcRegs |-> 0]
    /\ \A h \in Handles, f \in VoiceFields : voices[h][f] = 0

\* the calls of one tick hold gp.start_frame() directly followed by gp.run
StartsThenRuns(calls) ==
    \E i \in 1 .. Len(calls) - 1 :
        /\ calls[i] = [dsp |-> "gp", op |-> "start_frame"]
        /\ calls[i + 1] = [dsp |-> "gp", op |-> "run"]

\* C14: from the initial state (all registers zero), after the writes
\* VPVADDR = 0x100000, SECTL = 0x08 and GP.RST = 0x3 the frame timer is armed,
\* and the next frame tick runs to completion and calls gp.start_frame()
\* followed by gp.run(1000).
C14_BringUp ==
    [][S1State =>
          /\ timer
          /\ FrameTick => halt' = "run" /\ StartsThenRuns(dsp_calls')]_vars


(***************************************************************************)
(* C16: arming of the frame timer.                                         *)
(***************************************************************************)
\* the counter mode of a SECTL value
CounterMode(v) == GET_MASK(v, NV_PAPU_SECTL_XCNTMODE)

\* the timer is armed exactly when the stored counter mode is not OFF
ArmedIffMode(t, r) ==
    t <=> CounterMode(r[NV_PAPU_SECTL]) # NV_PAPU_SECTL_XCNTMODE_OFF

\* C16: in every reachable state the frame timer is armed iff the stored SECTL
\* has a non-zero counter mode; a SECTL write with mode OFF cancels the timer,
\* no frame tick occurs while the stored mode is OFF, and a SECTL write with a
\* non-zero mode sets the deadline to 10 ms after the write.
C16_TimerArming ==
    [][/\ ArmedIffMode(timer, regs)
       /\ ArmedIffMode(timer', regs')
       /\ FrameTick => CounterMode(regs[NV_PAPU_SECTL]) # 0
       /\ \A v \in SectlValues :
             MmioWrite(NV_PAPU_SECTL, v) =>
                IF CounterMode(v) = NV_PAPU_SECTL_XCNTMODE_OFF
                THEN ~timer'
                ELSE timer' /\ due' = FRAME_PERIOD_MS]_vars

\* after a frame tick has run, a SECTL write with a non-zero mode has just
\* set the deadline to 10 ms
C16_Witness ==
    /\ halt = "run"
    /\ nsteps > 0
    /\ last_write.region = "top"
    /\ last_write.addr = NV_PAPU_SECTL
    /\ CounterMode(last_write.val) # 0
    /\ timer
    /\ due = FRAME_PERIOD_MS


(***************************************************************************)
(* C15: the idle-voice trap.                                               *)
(***************************************************************************)
\* some voice linked on a list has Active == 0
LinkedIdle ==
    \E L \in 1 .. 3 : \E h \in OnList(regs, voices, L) : Active(voices, h) = 0

\* FECTL r shows the front end trapped on request
TrappedOnRequest(r) ==
    /\ BitAnd(r, NV_PAPU_FECTL_FEMETHMODE) = NV_PAPU_FECTL_FEMETHMODE_TRAPPED
    /\ BitAnd(r, NV_PAPU_FECTL_FETRAPREASON) =
          NV_PAPU_FECTL_FETRAPREASON_REQUESTED

\* IEN enables the interrupt globally and for the front-end trap
TrapEnabled(ien) ==
    /\ HasBit(ien, NV_PAPU_ISTS_GINTSTS)
    /\ HasBit(ien, NV_PAPU_ISTS_FETINTSTS)

AbortsUnchanged ==
    /\ halt' = "abort"
    /\ regs' = regs
    /\ gp_regs' = gp_regs
    /\ ep_regs' = ep_regs

\* C17: in each of the four regions (top, VP, GP, EP) a read or write whose
\* size is not 4 or whose address is not 4-byte aligned aborts the device,
\* returns no data and changes no register.
C17_AccessShape ==
    [][\A z \in MmioSizes :
          /\ \A a \in ShapeTopAddrs :
                ~AccessShapeOk(a, z) =>
                   /\ \A v \in MmioValues :
                         TopWrite(a, v, z) => AbortsUnchanged
                   /\ TopRead(a, z, 0) => halt' = "abort"
          /\ \A a \in ShapeVpAddrs :
                ~AccessShapeOk(a, z) =>
                   /\ VpWriteSized(a, 0, z) => AbortsUnchanged
                   /\ VpRead(a, z) => halt' = "abort"
          /\ \A a \in ShapeProcAddrs :
                ~AccessShapeOk(a, z) =>
                   /\ \A v \in MmioValues :
                         GpWriteSized(a, v, z) => AbortsUnchanged
                   /\ GpRead(a, z, 0) => halt' = "abort"
                   /\ \A v \in MmioValues :
                         EpWriteSized(a, v, z) => AbortsUnchanged
                   /\ EpRead(a, z, 0) => halt' = "abort"]_vars

\* in the GP and EP regions such an access does abort and change nothing
ProcShapeAborts ==
    [][\A z \in MmioSizes :
          \A a \in ShapeProcAddrs :
                ~AccessShapeOk(a, z) =>
                   /\ \A v \in MmioValues :
                         GpWriteSized(a, v, z) => AbortsUnchanged
                   /\ GpRead(a, z, 0) => halt' = "abort"
                   /\ \A v \in MmioValues :
                         EpWriteSized(a, v, z) => AbortsUnchanged
                   /\ EpRead(a, z, 0) => halt' = "abort"]_vars


(***************************************************************************)
(* C18: VOICE_OFF.                                                         *)
(***************************************************************************)
\* over a step, the voice records differ at most in the Active bit of h,
\* which is clear afterwards
OnlyActiveCleared(h) ==
    /\ \A g \in Handles \ {h} : voices'[g] = voices[g]
    /\ voices'[h][NV_PAVS_VOICE_TAR_PITCH_LINK] =
          voices[h][NV_PAVS_VOICE_TAR_PITCH_LINK]
    /\ voices'[h][NV_PAVS_VOICE_PAR_STATE] =
          BitClear(voices[h][NV_PAVS_VOICE_PAR_STATE],
                   NV_PAVS_VOICE_PAR_STATE_ACTIVE_VOICE)
    /\ Active(voices', h) = 0

\* over a step, the registers differ at most in the two method latches
OnlyLatchesChanged ==
    /\ \A r \in TopRegs \ {NV_PAPU_FEDECMETH, NV_PAPU_FEDECPARAM} :
          regs'[r] = regs[r]
    /\ gp_regs' = gp_regs
    /\ ep_regs' = ep_regs

\* C18: VOICE_OFF(h) changes only the Active bit of voice h (cleared) and the
\* FEDECMETH/FEDECPARAM latches: every next link, the Paused bit, FEAV and all
\* TOP/CURRENT/NEXT registers are unchanged, so h stays linked in its list.
\* (Every VOICE_OFF(h) step records "off" for h or halts; testing that first
\* spares evaluating the method on the other steps.)
C18_VoiceOffOnlyActive ==
    [][\A h \in Handles :
          (last_onoff'[h] = "off" \/ halt' # "run") /\ VoiceOff(h) =>
             /\ OnlyActiveCleared(h)
             /\ OnlyLatchesChanged
             /\ regs'[NV_PAPU_FEDECMETH] = NV1BA0_PIO_VOICE_OFF
             /\ regs'[NV_PAPU_FEDECPARAM] = h
             /\ \A L \in 1 .. 3 :
                   OnList(regs', voices', L) = OnList(regs, voices, L)
             /\ irq' = irq /\ timer' = timer /\ halt' = halt]_vars

\* VOICE_OFF was the last method; its voice is paused, linked with another
\* voice behind it, and inactive
C18_Witness ==
    \E h \in Handles :
        /\ regs[NV_PAPU_FEDECMETH] = NV1BA0_PIO_VOICE_OFF
        /\ regs[NV_PAPU_FEDECPARAM] = h
        /\ last_onoff[h] = "off"
        /\ \E L \in 1 .. 3 : h \in OnList(regs, voices, L)
        /\ next_link(voices, h) \in Handles \ {h}
        /\ Active(voices, h) = 0
        /\ Active(voices, next_link(voices, h)) = 1


(***************************************************************************)
(* C19 and C20: the walk of a tick.                                        *)
(***************************************************************************)
\* the walk from TOP[L] reaches the null handle
Reaches(r, v, L) ==
    LET c == Chain(v, TOP(r, L), NumVoices)
    IN  \/ TOP(r, L) = NULL_HANDLE
        \/ c # <<>> /\ next_link(v, c[Len(c)]) = NULL_HANDLE

\* the voices of list L in the order of their links, as the tick logs them
WalkOf(r, v, L) ==
    LET c == Chain(v, TOP(r, L), NumVoices)
    IN  [i \in 1 .. Len(c) |-> <<L - 1, c[i]>>]

\* the tick that starts here takes the idle-voice trap.  (A tick leaves the
\* history of the methods as it is; testing that first spares evaluating the
\* tick on the steps of the methods.)
TrapTick ==
    /\ last_onoff' = last_onoff
    /\ HasBit(regs[NV_PAPU_FETFORCE1], NV_PAPU_FETFORCE1_SE2FE_IDLE_VOICE)
    /\ LinkedIdle

\* the tick completes having visited every voice of 2D, 3D and MP in that
\* order, CURRENT is null for every list, TOP and all voice records are as
\* before
FrameCompleted ==
    /\ halt' = "run"
    /\ se_frame(Dev).visits =
          WalkOf(regs, voices, 1) \o WalkOf(regs, voices, 2)
             \o WalkOf(regs, voices, 3)
    /\ \A list \in 0 .. 2 :
          /\ regs'[voice_list_regs[list].current] = NULL_HANDLE
          /\ regs'[voice_list_regs[list].top] = regs[voice_list_regs[list].top]
    /\ voices' = voices

\* C19 as stated: a frame tick in which SE2FE_IDLE_VOICE traps the front end
\* completes the frame: the lists are walked in the order 2D, 3D, MP from TOP
\* along the links, the voices after the trapping one are visited, and at the
\* end CURRENT[L] == 0xFFFF for all lists with TOP[L] and the links unchanged.
C19_TrapTickCompletes ==
    [][TrapTick => (FrameTick => FrameCompleted)]_vars

\* C19 amended: the same for a tick that starts with every list reaching
\* 0xFFFF from its TOP along the next links.
C19_TrapTickCompletesOnEndingLists ==
    [][(TrapTick /\ \A L \in 1 .. 3 : Reaches(regs, voices, L))
          => (FrameTick => FrameCompleted)]_vars

\* a tick has trapped and completed with an inactive voice at the head of
\* the 2D list, a voice linked behind it and a voice on another list
C19_Witness ==
    /\ halt = "run"
    /\ TrappedOnRequest(regs[NV_PAPU_FECTL])
    /\ HasBit(regs[NV_PAPU_ISTS], NV_PAPU_ISTS_FETINTSTS)
    /\ \A list \in 0 .. 2 : regs[voice_list_regs[list].current] = NULL_HANDLE
    /\ TOP(regs, 1) \in Handles
    /\ Active(voices, TOP(regs, 1)) = 0
    /\ next_link(voices, TOP(regs, 1)) \in Handles
    /\ regs[NV_PAPU_NVL2D] = NULL_HANDLE
    /\ \E L \in 2 .. 3 : TOP(regs, L) \in Handles
    /\ \A L \in 1 .. 3 : Reaches(regs, voices, L)
    /\ dsp_calls # <<>>

\* C20 as stated: in every state reachable from empty lists by any sequence
\* of front-end methods, the walk from each TOP[L] reaches 0xFFFF, and no
\* frame tick fails to terminate.
C20_TraversalTerminates ==
    /\ \A L \in 1 .. 3 : Reaches(regs, voices, L)
    /\ halt # "hang"

\* C20 amended: the same for the sequences of methods in which no VOICE_ON
\* names a handle that is linked on a list at that moment.
C20_TraversalTerminatesUnlessRelinked ==
    ~relinked => C20_TraversalTerminates

\* C20 happens: a list of two voices, no linked handle named again, and a
\* tick has walked it to the end
C20_Witness ==
    /\ halt = "run"
    /\ ~relinked
    /\ \E L \in 1 .. 3 : Len(Chain(voices, TOP(regs, L), NumVoices)) = 2
    /\ \A list \in 0 .. 2 : regs[voice_list_regs[list].current] = NULL_HANDLE
    /\ dsp_calls # <<>>


(***************************************************************************)
(* C21: an idle voice with the trap disabled.                              *)
(***************************************************************************)
\* C21: if a frame tick meets a linked voice with Active == 0 while FETFORCE1
\* bit 15 is clear, the device aborts instead of trapping: FECTL and ISTS are
\* not modified and the interrupt line is not changed.  (A tick leaves the
\* history of the methods as it is; testing that first spares evaluating the
\* tick on the steps of the methods.)
C21_IdleWithoutTrapAborts ==
    [][(/\ last_onoff' = last_onoff
        /\ ~HasBit(regs[NV_PAPU_FETFORCE1],
                   NV_PAPU_FETFORCE1_SE2FE_IDLE_VOICE)
        /\ LinkedIdle)
          => (FrameTick =>
                 /\ halt' = "abort"
                 /\ regs'[NV_PAPU_FECTL] = regs[NV_PAPU_FECTL]
                 /\ regs'[NV_PAPU_ISTS] = regs[NV_PAPU_ISTS]
                 /\ irq' = irq)]_vars

\* a tick has aborted on the idle-voice method of a voice that was switched
\* off while linked, with the trap disabled
C21_Witness ==
    /\ halt = "abort"
    /\ ~HasBit(regs[NV_PAPU_FETFORCE1], NV_PAPU_FETFORCE1_SE2FE_IDLE_VOICE)
    /\ regs[NV_PAPU_FEDECMETH] = SE2FE_IDLE_VOICE
    /\ regs[NV_PAPU_FEDECPARAM] \in Handles
    /\ last_onoff[regs[NV_PAPU_FEDECPARAM]] = "off"
    /\ Active(voices, regs[NV_PAPU_FEDECPARAM]) = 0
    /\ \E L \in 1 .. 3 : regs[NV_PAPU_FEDECPARAM] \in OnList(regs, voices, L)


(***************************************************************************)
(* C22: the kick of the processors.                                        *)
(***************************************************************************)
\* the DSP calls of a completed tick for the RST values g of GP and e of EP
KickCalls(g, e) ==
    <<[dsp |-> "gp", op |-> "write_mixbuf"]>>
       \o (IF BothSet(g)
           THEN <<[dsp |-> "gp", op |-> "start_frame"],
                  [dsp |-> "gp", op |-> "run"]>>
           ELSE <<>>)
       \o (IF BothSet(e)
           THEN <<[dsp |-> "ep", op |-> "start_frame"]>>
           ELSE <<>>)

\* C22: in each frame tick, after the mix buffer has been written to the GP,
\* gp.start_frame() and then gp.run(1000) are called iff GP.RST has both GPRST
\* and GPDSPRST set; afterwards ep.start_frame() is called iff EP.RST has both
\* bits set; ep.run is never called, and the tick re-arms the timer for
\* now + 10 ms.  (The calls are those of a tick that completes its walk.)
C22_KickPerTick ==
    [][FrameTick =>
          /\ timer' /\ due' = FRAME_PERIOD_MS
          /\ \A i \in 1 .. Len(dsp_calls') :
                dsp_calls'[i] # [dsp |-> "ep", op |-> "run"]
          /\ halt' = "run" =>
                dsp_calls' = KickCalls(gp_regs[NV_PAPU_GPRST],
                                       ep_regs[NV_PAPU_EPRST])]_vars

\* a tick has just kicked the GP but not the EP, whose RST has one bit only
C22_Witness ==
    /\ halt = "run"
    /\ nsteps > 0
    /\ BothSet(gp_regs[NV_PAPU_GPRST])
    /\ ep_regs[NV_PAPU_EPRST] = 1
    /\ dsp_calls = <<[dsp |-> "gp", op |-> "write_mixbuf"],
                     [dsp |-> "gp", op |-> "start_frame"],
                     [dsp |-> "gp", op |-> "run"]>>


(***************************************************************************)
(* The DSP DMA callbacks: FIFO and scratch transfers.                      *)
(***************************************************************************)
NV_PAPU_GPSADDR == 8256

NV_PAPU_GPFADDR == 8260

NV_PAPU_EPSADDR == 8264

NV_PAPU_EPFADDR == 8268

NV_PAPU_GPSMAXSGE == 8404

NV_PAPU_GPFMAXSGE == 8408

NV_PAPU_EPSMAXSGE == 8412

NV_PAPU_EPFMAXSGE == 8416

NV_PAPU_GPOFBASE0 == 12324

NV_PAPU_GPOFBASE0_VALUE == 16776960

NV_PAPU_GPOFEND0 == 12328

NV_PAPU_GPOFEND0_VALUE == 16776960

NV_PAPU_GPOFCUR0 == 12332

NV_PAPU_GPOFCUR0_VALUE == 16777212

NV_PAPU_GPIFBASE0 == 12388

NV_PAPU_GPIFEND0 == 12392

NV_PAPU_GPIFCUR0 == 12396

NV_PAPU_EPOFBASE0 == 16420

NV_PAPU_EPOFEND0 == 16424

NV_PAPU_EPOFCUR0 == 16428

NV_PAPU_EPIFBASE0 == 16484

NV_PAPU_EPIFEND0 == 16488

NV_PAPU_EPIFCUR0 == 16492

GP_OUTPUT_FIFO_COUNT == 4

GP_INPUT_FIFO_COUNT == 2

EP_OUTPUT_FIFO_COUNT == 4

EP_INPUT_FIFO_COUNT == 2

\* mutant: the cursor is used as the register holds it, below base or not
fifo_clamp_none(cur, base) == cur

\* if (cur < base) cur = base
fifo_clamp(cur, base) == IF cur < base THEN base ELSE cur

\* The part gp_fifo_rw and ep_fifo_rw share after the choice of registers:
\* x carries d->regs, guest RAM and the DSP's buffer; ptr is the buffer's
\* first byte.
fifo_rw(x, base_reg, end_reg, cur_reg, faddr, fmaxsge, len, dir) ==
    LET base == GET_MASK(x.regs[base_reg], NV_PAPU_GPOFBASE0_VALUE)
        end == GET_MASK(x.regs[end_reg], NV_PAPU_GPOFEND0_VALUE)
        cur == GET_MASK(x.regs[cur_reg], NV_PAPU_GPOFCUR0_VALUE)
    IN  IF ~(cur < end) THEN Abort(x)
        ELSE
          LET y == circular_scatter_gather_rw(
                       x, x.regs[faddr], x.regs[fmaxsge], base, end,
                       fifo_clamp(cur, base), len, dir)
          IN  IF y.halt # "run" THEN y
              ELSE [y EXCEPT !.regs[cur_reg] =
                        SET_MASK(@, NV_PAPU_GPOFCUR0_VALUE, y.cur)]

gp_fifo_rw(x, index, len, dir) ==
    IF dir
    THEN IF ~(index < GP_OUTPUT_FIFO_COUNT) THEN Abort(x)
         ELSE fifo_rw(x, NV_PAPU_GPOFBASE0 + 16 * index,
                      NV_PAPU_GPOFEND0 + 16 * index,
                      NV_PAPU_GPOFCUR0 + 16 * index,
                      NV_PAPU_GPFADDR, NV_PAPU_GPFMAXSGE, len, dir)
    ELSE IF ~(index < GP_INPUT_FIFO_COUNT) THEN Abort(x)
         ELSE fifo_rw(x, NV_PAPU_GPIFBASE0 + 16 * index,
                      NV_PAPU_GPIFEND0 + 16 * index,
                      NV_PAPU_GPIFCUR0 + 16 * index,
                      NV_PAPU_GPFADDR, NV_PAPU_GPFMAXSGE, len, dir)

ep_fifo_rw(x, index, len, dir) ==
    IF dir
    THEN IF ~(index < EP_OUTPUT_FIFO_COUNT) THEN Abort(x)
         ELSE fifo_rw(x, NV_PAPU_EPOFBASE0 + 16 * index,
                      NV_PAPU_EPOFEND0 + 16 * index,
                      NV_PAPU_EPOFCUR0 + 16 * index,
                      NV_PAPU_EPFADDR, NV_PAPU_EPFMAXSGE, len, dir)
    ELSE IF ~(index < EP_INPUT_FIFO_COUNT) THEN Abort(x)
         ELSE fifo_rw(x, NV_PAPU_EPIFBASE0 + 16 * index,
                      NV_PAPU_EPIFEND0 + 16 * index,
                      NV_PAPU_EPIFCUR0 + 16 * index,
                      NV_PAPU_EPFADDR, NV_PAPU_EPFMAXSGE, len, dir)

\* mutant: the scratch transfer goes through the FIFO page table
gp_scratch_rw_fifo(x, addr, len, dir) ==
    scatter_gather_rw(x, x.regs[NV_PAPU_GPFADDR], x.regs[NV_PAPU_GPFMAXSGE],
                      0, addr, len, dir)

\* gp_scratch_rw: a linear transfer through the GP scratch page table
gp_scratch_rw(x, addr, len, dir) ==
    scatter_gather_rw(x, x.regs[NV_PAPU_GPSADDR], x.regs[NV_PAPU_GPSMAXSGE],
                      0, addr, len, dir)

\* ep_scratch_rw: a linear transfer through the EP scratch page table
ep_scratch_rw(x, addr, len, dir) ==
    scatter_gather_rw(x, x.regs[NV_PAPU_EPSADDR], x.regs[NV_PAPU_EPSMAXSGE],
                      0, addr, len, dir)

\* the three registers of FIFO index of processor p in direction dir
FifoTriple(p, dir, index) ==
    LET b == CASE p = "gp" /\ dir -> NV_PAPU_GPOFBASE0
               [] p = "gp" /\ ~dir -> NV_PAPU_GPIFBASE0
               [] p = "ep" /\ dir -> NV_PAPU_EPOFBASE0
               [] p = "ep" /\ ~dir -> NV_PAPU_EPIFBASE0
    IN  [base |-> b + 16 * index, end |-> b + 4 + 16 * index,
         cur |-> b + 8 + 16 * index]

\* the FIFOs of the device, as <<processor, direction, index>>
Fifos ==
    {f \in Procs \X BOOLEAN \X (0 .. 3) : f[2] \/ f[3] < 2}

\* the registers the DMA callbacks read and write
DmaRegs ==
    {NV_PAPU_GPSADDR, NV_PAPU_GPFADDR, NV_PAPU_EPSADDR, NV_PAPU_EPFADDR,
     NV_PAPU_GPSMAXSGE, NV_PAPU_GPFMAXSGE, NV_PAPU_EPSMAXSGE,
     NV_PAPU_EPFMAXSGE}
      \cup UNION {{FifoTriple(f[1], f[2], f[3]).base,
                   FifoTriple(f[1], f[2], f[3]).end,
                   FifoTriple(f[1], f[2], f[3]).cur} : f \in Fifos}

\* the buffer the DSP hands to a callback: len bytes to store in guest RAM,
\* or len bytes to fill from it
DspBuf(len, dir) == [i \in 1 .. len |-> IF dir THEN i ELSE 0]

\* what a callback works on
DmaIn(len, dir) ==
    [regs |-> regs, ram |-> dma.ram, buf |-> DspBuf(len, dir),
     page_size |-> dma.page_size, ram_size |-> dma.ram_size, segs |-> <<>>,
     cur |-> 0, halt |-> "run"]

\* the state a callback leaves behind; op records the call
DmaLeaves(x, what, op) ==
    /\ regs' = x.regs
    /\ halt' = x.halt
    /\ dma' = [dma EXCEPT !.ram = x.ram, !.pc = what,
                          !.wr = [buf |-> x.buf, cur |-> x.cur,
                                  segs |-> x.segs, op |-> op]]
    /\ UNCHANGED <<gp_regs, ep_regs, voices, far_voices, irq, timer, due,
                   dsp_calls, nsteps, last_onoff, relinked, top_run,
                   rst_hist, last_write, last_read>>

\* the CUR register of a FIFO before the call, 0 for a FIFO there is not
CurBefore(p, dir, index) ==
    IF FifoTriple(p, dir, index).cur \in DOMAIN regs
    THEN regs[FifoTriple(p, dir, index).cur] ELSE 0

\* the GP's DSP moves len bytes through one of its FIFOs
GpFifo(index, len, dir) ==
    /\ halt = "run"
    /\ dma.pc = "idle"
    /\ \E x \in {gp_fifo_rw(DmaIn(len, dir), index, len, dir)} :
          DmaLeaves(x, "fifo", [proc |-> "gp", index |-> index, len |-> len,
                                dir |-> dir,
                                cur0 |-> CurBefore("gp", dir, index)])

\* the EP's DSP moves len bytes through one of its FIFOs
EpFifo(index, len, dir) ==
    /\ halt = "run"
    /\ dma.pc = "idle"
    /\ \E x \in {ep_fifo_rw(DmaIn(len, dir), index, len, dir)} :
          DmaLeaves(x, "fifo", [proc |-> "ep", index |-> index, len |-> len,
                                dir |-> dir,
                                cur0 |-> CurBefore("ep", dir, index)])

\* the positions of a FIFO window over two small pages
FifoPos == {0, SmallPage - 1, SmallPage + 1}

\* page 1 after page 0, or at the end of RAM
FifoTables == {<<16, 16 + SmallPage>>, <<16, SmallRam - SmallPage>>}

\* the FIFOs whose registers the guest has programmed
SampleFifos == {<<"gp", TRUE, 3>>, <<"ep", FALSE, 1>>}

\* bits outside the value fields of the three registers
FifoJunk == {0, 16777219}

\* The registers after the guest has programmed one FIFO (base, end and cur
\* as field values, junk in the bits outside the fields) and the FIFO page
\* tables of both processors.
FifoRegs(f, base, end, cur, junk, max_sge) ==
    LET t == FifoTriple(f[1], f[2], f[3])
    IN  [a \in TopRegs \cup DmaRegs |->
            CASE a = t.base -> 256 * base + junk
              [] a = t.end -> 256 * end + junk
              [] a = t.cur -> 4 * cur + junk
              [] a \in {NV_PAPU_GPFMAXSGE, NV_PAPU_EPFMAXSGE} -> max_sge
              [] OTHER -> 0]

InitFifo ==
    /\ \E f \in SampleFifos, base \in FifoPos, end \in FifoPos,
          cur \in FifoPos, junk \in FifoJunk, max_sge \in {0, 1} :
          /\ regs = FifoRegs(f, base, end, cur, junk, max_sge)
          /\ \E entries \in FifoTables :
                dma = DmaConfig(SmallPage, SmallRam, max_sge, entries,
                                0, 0, 0, <<>>)
    /\ gp_regs = [a \in ProcRegs |-> 0]
    /\ ep_regs = [a \in ProcRegs |-> 0]
    /\ voices = [h \in Handles |-> [f \in VoiceFields |-> 0]]
    /\ far_voices = [h \in Handles |-> [f \in VoiceFields |-> 0]]
    /\ irq = FALSE
    /\ timer = FALSE
    /\ due = 0
    /\ dsp_calls = <<>>
    /\ halt = "run"
    /\ nsteps = 0
    /\ last_onoff = [h \in Handles |-> "none"]
    /\ relinked = FALSE
    /\ top_run = NoRun
    /\ rst_hist = [p \in Procs |-> <<>>]
    /\ last_write = NoWrite
    /\ last_read = NoRead

NextFifo ==
    \/ \E index \in 0 .. 4, len \in 0 .. MaxLen, dir \in BOOLEAN :
          GpFifo(index, len, dir)
    \/ \E index \in 0 .. 4, len \in 0 .. MaxLen, dir \in BOOLEAN :
          EpFifo(index, len, dir)

SpecFifo == InitFifo /\ [][NextFifo]_vars


(***************************************************************************)
(* C23: the precondition and the clamp of a FIFO transfer.                 *)
(***************************************************************************)
\* the value fields of the registers of a FIFO in register file r
FifoBase(r, p, dir, index) ==
    GET_MASK(r[FifoTriple(p, dir, index).base], NV_PAPU_GPOFBASE0_VALUE)

FifoEnd(r, p, dir, index) ==
    GET_MASK(r[FifoTriple(p, dir, index).end], NV_PAPU_GPOFEND0_VALUE)

FifoCur(r, p, dir, index) ==
    GET_MASK(r[FifoTriple(p, dir, index).cur], NV_PAPU_GPOFCUR0_VALUE)

\* a transfer of len bytes through FIFO <<p, dir, index>>
FifoStep(p, index, len, dir) ==
    /\ dma'.pc # "idle"
    /\ dma'.wr.op.proc = p
    /\ dma'.wr.op.index = index
    /\ dma'.wr.op.len = len
    /\ dma'.wr.op.dir = dir
    /\ IF p = "gp" THEN GpFifo(index, len, dir) ELSE EpFifo(index, len, dir)

\* the transfer of this step has copied something
Copied == dma'.wr.segs # <<>>

\* cur >= end aborts; cur < base makes the copy start at base; a completed
\* transfer leaves the returned cursor in the value field of CUR and the
\* other bits of CUR as they were
FifoRule(p, index, len, dir) ==
    LET base == FifoBase(regs, p, dir, index)
        end == FifoEnd(regs, p, dir, index)
        cur == FifoCur(regs, p, dir, index)
        c == FifoTriple(p, dir, index).cur
    IN  /\ cur >= end => halt' = "abort"
        /\ (cur < base /\ Copied) => dma'.wr.segs[1].cur = base
        /\ (cur >= base /\ Copied) => dma'.wr.segs[1].cur = cur
        /\ halt' = "run" =>
              /\ GET_MASK(regs'[c], NV_PAPU_GPOFCUR0_VALUE) = dma'.wr.cur
              /\ BitClear(regs'[c], NV_PAPU_GPOFCUR0_VALUE)
                    = BitClear(regs[c], NV_PAPU_GPOFCUR0_VALUE)

\* the cursor a completed transfer leaves lies in the window
CursorInWindow(p, index, dir) ==
    /\ FifoBase(regs, p, dir, index) <= FifoCur(regs', p, dir, index)
    /\ FifoCur(regs', p, dir, index) < FifoEnd(regs, p, dir, index)

\* C23 as stated: for every GP or EP FIFO transfer (output index < 4, input
\* index < 2) cur >= end aborts the device, cur < base makes the transfer
\* start at base, and after a completed transfer the value field of CUR
\* holds the returned cursor, which satisfies base <= cur < end, with the
\* bits of CUR outside the field unchanged.
C23_FifoClampAlways ==
    [][\A f \in Fifos, len \in 0 .. MaxLen :
          FifoStep(f[1], f[3], len, f[2]) =>
              /\ FifoRule(f[1], f[3], len, f[2])
              /\ halt' = "run" => CursorInWindow(f[1], f[3], f[2])]_vars

\* C23, amended: as above, but the returned cursor satisfies
\* base <= cur < end unless the transfer had len = 0 and base >= end, where
\* CUR is left holding base.
C23_FifoClamp ==
    [][\A f \in Fifos, len \in 0 .. MaxLen :
          FifoStep(f[1], f[3], len, f[2]) =>
              /\ FifoRule(f[1], f[3], len, f[2])
              /\ halt' = "run" =>
                    IF len = 0 /\ FifoBase(regs, f[1], f[2], f[3])
                                     >= FifoEnd(regs, f[1], f[2], f[3])
                    THEN FifoCur(regs', f[1], f[2], f[3])
                             = FifoBase(regs, f[1], f[2], f[3])
                    ELSE CursorInWindow(f[1], f[3], f[2])]_vars

\* a transfer through a FIFO whose registers carry bits outside the fields
\* has copied from base around the end of the window and has completed
C23_Witness ==
    /\ halt = "run"
    /\ dma.pc = "fifo"
    /\ dma.wr.op.len > 1
    /\ Len(dma.wr.segs) > 1
    /\ LET p == dma.wr.op.proc
           dir == dma.wr.op.dir
           index == dma.wr.op.index
       IN  /\ dma.wr.segs[1].cur = FifoBase(regs, p, dir, index)
           /\ GET_MASK(dma.wr.op.cur0, NV_PAPU_GPOFCUR0_VALUE)
                 < FifoBase(regs, p, dir, index)
           /\ FifoCur(regs, p, dir, index) = dma.wr.cur
           /\ dma.wr.cur > FifoBase(regs, p, dir, index)
           /\ dma.wr.cur < FifoEnd(regs, p, dir, index)
           /\ BitClear(regs[FifoTriple(p, dir, index).cur],
                       NV_PAPU_GPOFCUR0_VALUE) = 16777219


(***************************************************************************)
(* C27: a FIFO transfer ends.                                              *)
(***************************************************************************)
\* C27: every GP or EP FIFO transfer of len > 0 bytes that passes the
\* cur < end precondition completes or aborts after finitely many copy
\* steps, whatever BASE, END and CUR hold (base = end and base > end
\* included).
C27_FifoTransferEnds ==
    [][\A f \in Fifos, len \in 1 .. MaxLen :
          (/\ FifoCur(regs, f[1], f[2], f[3]) < FifoEnd(regs, f[1], f[2], f[3])
           /\ FifoStep(f[1], f[3], len, f[2]))
              => halt' \in {"run", "abort"}]_vars


(***************************************************************************)
(* The scratch callbacks: linear transfers.                                *)
(***************************************************************************)
\* a first transfer, or a read that follows a write
ScratchTurn(dir) ==
    \/ dma.pc = "idle"
    \/ dma.pc = "scratch" /\ dma.wr.op.dir /\ ~dir

\* the GP's DSP moves len bytes to or from scratch address addr
GpScratch(addr, len, dir) ==
    /\ halt = "run"
    /\ ScratchTurn(dir)
    /\ \E x \in {gp_scratch_rw(DmaIn(len, dir), addr, len, dir)} :
          DmaLeaves(x, IF dma.pc = "idle" THEN "scratch" ELSE "read",
                    [proc |-> "gp", addr |-> addr, len |-> len, dir |-> dir])

\* the EP's DSP moves len bytes to or from scratch address addr
EpScratch(addr, len, dir) ==
    /\ halt = "run"
    /\ ScratchTurn(dir)
    /\ \E x \in {ep_scratch_rw(DmaIn(len, dir), addr, len, dir)} :
          DmaLeaves(x, IF dma.pc = "idle" THEN "scratch" ELSE "read",
                    [proc |-> "ep", addr |-> addr, len |-> len, dir |-> dir])

\* The registers after the guest has programmed the scratch page tables: the
\* GP's at address 0, the EP's one entry further.
ScratchRegs(max_sge) ==
    [a \in TopRegs \cup DmaRegs |->
        CASE a = NV_PAPU_EPSADDR -> 8
          [] a \in {NV_PAPU_GPSMAXSGE, NV_PAPU_EPSMAXSGE} -> max_sge
          [] OTHER -> 0]

\* the scratch addresses of the first two pages and the start of the third
ScratchAddrs == 0 .. 2 * SmallPage

InitScratch ==
    /\ \E max_sge \in {0, 1}, entries \in SmallTables :
          /\ regs = ScratchRegs(max_sge)
          /\ dma = DmaConfig(SmallPage, SmallRam, max_sge, entries,
                             0, 0, 0, <<>>)
    /\ gp_regs = [a \in ProcRegs |-> 0]
    /\ ep_regs = [a \in ProcRegs |-> 0]
    /\ voices = [h \in Handles |-> [f \in VoiceFields |-> 0]]
    /\ far_voices = [h \in Handles |-> [f \in VoiceFields |-> 0]]
    /\ irq = FALSE
    /\ timer = FALSE
    /\ due = 0
    /\ dsp_calls = <<>>
    /\ halt = "run"
    /\ nsteps = 0
    /\ last_onoff = [h \in Handles |-> "none"]
    /\ relinked = FALSE
    /\ top_run = NoRun
    /\ rst_hist = [p \in Procs |-> <<>>]
    /\ last_write = NoWrite
    /\ last_read = NoRead

NextScratch ==
    \/ \E addr \in ScratchAddrs, len \in 0 .. MaxLen, dir \in BOOLEAN :
          GpScratch(addr, len, dir)
    \/ \E addr \in ScratchAddrs, len \in 0 .. MaxLen, dir \in BOOLEAN :
          EpScratch(addr, len, dir)

SpecScratch == InitScratch /\ [][NextScratch]_vars

(***************************************************************************)
(* C24: the bounds and the address mapping of a linear transfer.           *)
(***************************************************************************)
\* the page table and the largest page index of processor p
ScratchBase(p) ==
    IF p = "gp" THEN regs[NV_PAPU_GPSADDR] ELSE regs[NV_PAPU_EPSADDR]

ScratchMax(p) ==
    IF p = "gp" THEN regs[NV_PAPU_GPSMAXSGE] ELSE regs[NV_PAPU_EPSMAXSGE]

\* table[a div PAGE_SIZE].addr + (a mod PAGE_SIZE) in guest RAM as it is
\* before the transfer
ScratchPhys(p, a) ==
    ldl_le_phys(dma.ram, ScratchBase(p) + (a \div dma.page_size) * 8)
        + (a % dma.page_size)

\* the pages (chunks) that a transfer of len bytes from addr goes through
ChunksOf(addr, len) ==
    IF len = 0 THEN {}
    ELSE (addr \div dma.page_size) .. ((addr + len - 1) \div dma.page_size)

\* the buffer indices k (from 0) of the bytes of chunk g
ChunkBytes(addr, len, g) ==
    {k \in 0 .. len - 1 : (addr + k) \div dma.page_size = g}

\* chunk g needs a page index above max_index, or its resolved range
\* paddr .. paddr + bytes reaches the end of guest RAM
ChunkBad(p, addr, len, g) ==
    \/ g > ScratchMax(p)
    \/ \E k \in ChunkBytes(addr, len, g) :
          /\ \A j \in ChunkBytes(addr, len, g) : k <= j
          /\ ScratchPhys(p, addr + k) + Cardinality(ChunkBytes(addr, len, g))
                >= dma.ram_size

\* the chunks copied before the transfer ends: all of them, or those before
\* the first bad one
ChunksDone(p, addr, len) ==
    {g \in ChunksOf(addr, len) :
        \A b \in ChunksOf(addr, len) : b <= g => ~ChunkBad(p, addr, len, b)}

\* the buffer indices of the bytes copied
BytesDone(p, addr, len) ==
    UNION {ChunkBytes(addr, len, g) : g \in ChunksDone(p, addr, len)}

\* the bytes of the page-table entries that the transfer reads
EntryBytes(p, addr, len) ==
    {ScratchBase(p) + g * 8 + j : g \in ChunksOf(addr, len), j \in 0 .. 3}

\* a write that does not store into the page-table entries it reads
TableKept(p, addr, len) ==
    {ScratchPhys(p, addr + k) : k \in BytesDone(p, addr, len)}
        \cap EntryBytes(p, addr, len) = {}

\* a linear transfer of this step
ScratchStep(p, addr, len, dir) ==
    /\ dma'.pc # "idle"
    /\ dma'.wr.op = [proc |-> p, addr |-> addr, len |-> len, dir |-> dir]
    /\ IF p = "gp" THEN GpScratch(addr, len, dir)
       ELSE EpScratch(addr, len, dir)

\* RAM byte a after a write: the last buffer byte that maps to a, if any
Stored(p, addr, len, a) ==
    LET ks == {k \in BytesDone(p, addr, len) : ScratchPhys(p, addr + k) = a}
    IN  IF ks = {} THEN ByteAt(dma.ram, a)
        ELSE DspBuf(len, TRUE)[(CHOOSE k \in ks : \A j \in ks : j <= k) + 1]

\* C24: a linear transfer aborts the device as soon as a chunk needs a page
\* index greater than max_index or its resolved range has
\* paddr + bytes >= guest RAM size (a chunk that ends exactly at the end of
\* RAM aborts); otherwise byte k of the buffer corresponds to physical
\* address table[(addr + k) div PAGE_SIZE].addr + ((addr + k) mod PAGE_SIZE);
\* the read direction leaves guest RAM unchanged.
C24_LinearTransfer ==
    [][\A p \in Procs, addr \in ScratchAddrs, len \in 0 .. MaxLen :
          /\ ScratchStep(p, addr, len, FALSE) =>
                /\ dma'.ram = dma.ram
                /\ halt' = IF \E g \in ChunksOf(addr, len) :
                                 ChunkBad(p, addr, len, g)
                           THEN "abort" ELSE "run"
                /\ \A k \in BytesDone(p, addr, len) :
                      dma'.wr.buf[k + 1]
                          = ByteAt(dma.ram, ScratchPhys(p, addr + k))
          /\ ScratchStep(p, addr, len, TRUE) =>
                /\ halt' \in {"run", "abort"}
                /\ (\E g \in ChunksOf(addr, len) : g > ScratchMax(p))
                      => halt' = "abort"
                /\ TableKept(p, addr, len) =>
                      /\ halt' = IF \E g \in ChunksOf(addr, len) :
                                       ChunkBad(p, addr, len, g)
                                 THEN "abort" ELSE "run"
                      /\ \A a \in 0 .. dma.ram_size - 1 :
                            ByteAt(dma'.ram, a) = Stored(p, addr, len, a)]_vars

\* a write that crossed from page 0 into page 1 has completed and a read of
\* the same range has returned the bytes written
C24_Witness ==
    /\ halt = "run"
    /\ dma.pc = "read"
    /\ dma.wr.op.len > 1
    /\ (dma.wr.op.addr % dma.page_size) + dma.wr.op.len > dma.page_size
    /\ dma.wr.buf = DspBuf(dma.wr.op.len, TRUE)
    /\ ldl_le_phys(dma.ram, 0) = 16
    /\ ldl_le_phys(dma.ram, 8) = 16 + SmallPage
    /\ dma.wr.op.proc = "gp"
    /\ ByteAt(dma.ram, 16 + dma.wr.op.addr) = 1


(***************************************************************************)
(* C25: the interrupt line and GINTSTS.                                    *)
(***************************************************************************)
\* C25: in every reachable state (after any sequence of MMIO writes,
\* front-end methods and frame ticks) the PCI interrupt line is asserted if
\* and only if ISTS.GINTSTS is 1.
C25_LineIffGintsts ==
    irq <=> HasBit(regs[NV_PAPU_ISTS], NV_PAPU_ISTS_GINTSTS)

\* the line is up with GINTSTS set after a trap, and the guest has since
\* written IEN without the global enable
C25_Witness ==
    /\ irq
    /\ HasBit(regs[NV_PAPU_ISTS], NV_PAPU_ISTS_GINTSTS)
    /\ HasBit(regs[NV_PAPU_ISTS], NV_PAPU_ISTS_FETINTSTS)
    /\ ~HasBit(regs[NV_PAPU_IEN], NV_PAPU_ISTS_GINTSTS)
    /\ last_write.addr = NV_PAPU_IEN
    /\ halt = "run"


(***************************************************************************)
(* C26: RST and the most recent handshake call.                            *)
(***************************************************************************)
\* the most recent of reset() / bootstrap() made on processor p, "none"
\* before the first
LastHandshake(p) ==
    IF rst_hist[p] = <<>> THEN "none"
    ELSE rst_hist[p][Len(rst_hist[p])].last

\* the RST register of processor p
RstOf(p) ==
    IF p = "gp" THEN gp_regs[NV_PAPU_GPRST] ELSE ep_regs[NV_PAPU_EPRST]

\* C26: for each processor, in every reachable state its RST register has
\* both GPRST and GPDSPRST set if and only if the most recent handshake call
\* on that processor was bootstrap() (no call yet counts as not
\* bootstrapped); so a frame tick calls start_frame() / run() only on a
\* processor whose last handshake call was bootstrap().
C26_ReadyIffBootstrapped ==
    /\ [](\A p \in Procs : BothSet(RstOf(p)) <=> LastHandshake(p) = "bootstrap")
    /\ [][FrameTick =>
             \A i \in 1 .. Len(dsp_calls') :
                 dsp_calls'[i].op \in {"start_frame", "run"} =>
                     LastHandshake(dsp_calls'[i].dsp) = "bootstrap"]_vars

\* the GP was bootstrapped and then written again with both bits set (no
\* call), the EP was bootstrapped and later reset, and the last tick has
\* kicked the GP only
C26_Witness ==
    /\ Len(rst_hist["gp"]) = 2
    /\ rst_hist["gp"][2].calls = <<>>
    /\ BothSet(gp_regs[NV_PAPU_GPRST])
    /\ LastHandshake("gp") = "bootstrap"
    /\ Len(rst_hist["ep"]) = 2
    /\ rst_hist["ep"][1].last = "bootstrap"
    /\ LastHandshake("ep") = "reset"
    /\ ~BothSet(ep_regs[NV_PAPU_EPRST])
    /\ dsp_calls = <<[dsp |-> "gp", op |-> "write_mixbuf"],
                     [dsp |-> "gp", op |-> "start_frame"],
                     [dsp |-> "gp", op |-> "run"]>>
    /\ halt = "run"


(***************************************************************************)
(* The guest's trap handling between frame ticks.                          *)
(***************************************************************************)
\* values the guest writes to FECTL to release the front end: the method
\* mode and the trap reason cleared, bit 0 clear or set
FectlValues == {0, 1}

\* the guest releases the trapped front end by rewriting FECTL, after it has
\* cleared FETINTSTS
ReleaseTrap(v) ==
    /\ BitAnd(regs[NV_PAPU_FECTL], NV_PAPU_FECTL_FEMETHMODE)
          = NV_PAPU_FECTL_FEMETHMODE_TRAPPED
    /\ BitAnd(regs[NV_PAPU_ISTS], NV_PAPU_ISTS_FETINTSTS) = 0
    /\ MmioWrite(NV_PAPU_FECTL, v)

\* the inserts before the first tick: voice 0 on the 2D list, alone or with
\* voice 1 on the MP list, and the same with voice 0 switched on twice
TrapSetups ==
    {<<<<1, 0>>>>, <<<<1, 0>>, <<3, 1>>>>, <<<<1, 0>>, <<1, 0>>, <<3, 1>>>>}

InitTrap ==
    /\ \E setup \in TrapSetups :
          \E x \in {Populate([s |-> BroughtUp, relinked |-> FALSE,
                               last_onoff |-> [h \in Handles |-> "none"]],
                              setup)} :
             /\ regs = x.s.regs
             /\ voices = x.s.voices
             /\ relinked = x.relinked
             /\ last_onoff = x.last_onoff
    /\ gp_regs = [a \in ProcRegs |-> 0]
    /\ ep_regs = [a \in ProcRegs |-> 0]
    /\ far_voices = [h \in Handles |-> [f \in VoiceFields |-> 0]]
    /\ irq = FALSE
    /\ timer = TRUE
    /\ due = FRAME_PERIOD_MS
    /\ dsp_calls = <<>>
    /\ halt = "run"
    /\ nsteps = 0
    /\ top_run = NoRun
    /\ rst_hist = [p \in Procs |-> <<>>]
    /\ last_write = NoWrite
    /\ last_read = NoRead
    /\ dma = NoDma

\* the guest switches voices off and handles the trap, and frame ticks
NextTrap ==
    \/ \E h \in {0, 1} : VoiceOff(h)
    \/ \E w \in IrqValues : MmioWrite(NV_PAPU_ISTS, w)
    \/ \E v \in {0, NV_PAPU_FETFORCE1_SE2FE_IDLE_VOICE} :
          MmioWrite(NV_PAPU_FETFORCE1, v)
    \/ \E v \in FectlValues : ReleaseTrap(v)
    \/ FrameTick

SpecTrap == InitTrap /\ [][NextTrap]_vars

(***************************************************************************)
(* C28: the trap is raised again on every tick.                            *)
(***************************************************************************)
\* the tick leaves the lists and the trap enable as they were
ListsKept ==
    /\ voices' = voices
    /\ \A L \in 1 .. 3 : TOP(regs', L) = TOP(regs, L)
    /\ regs'[NV_PAPU_FETFORCE1] = regs[NV_PAPU_FETFORCE1]

\* the tick raises FETINTSTS, enters the TRAPPED state and leaves the
\* inactive voice linked
TrapsAgain ==
    /\ HasBit(regs'[NV_PAPU_ISTS], NV_PAPU_ISTS_FETINTSTS)
    /\ TrappedOnRequest(regs'[NV_PAPU_FECTL])
    /\ LinkedIdle'

\* C28 as stated: the scheduler never unlinks a voice, so while an inactive
\* voice stays linked and FETFORCE1 bit 15 stays set, every frame tick raises
\* ISTS.FETINTSTS again and re-enters the TRAPPED state, also after the guest
\* has cleared FETINTSTS by a W1C write and rewritten FECTL between ticks.
C28_TrapEveryTick ==
    [][FrameTick => /\ ListsKept
                    /\ TrapTick => TrapsAgain]_vars

\* C28 amended: the same for ticks that start with every list reaching
\* 0xFFFF from its TOP along the next links.
C28_TrapEveryTickOnEndingLists ==
    [][FrameTick =>
          /\ ListsKept
          /\ (TrapTick /\ \A L \in 1 .. 3 : Reaches(regs, voices, L))
                => TrapsAgain]_vars

\* a tick has trapped, the guest has cleared FETINTSTS and rewritten FECTL
\* with bit 0 set, and the next tick has completed and trapped again
C28_Witness ==
    /\ halt = "run"
    /\ nsteps >= 2
    /\ last_write = NoWrite
    /\ regs[NV_PAPU_FECTL] = 1 + NV_PAPU_FECTL_FEMETHMODE_TRAPPED
                               + NV_PAPU_FECTL_FETRAPREASON_REQUESTED
    /\ HasBit(regs[NV_PAPU_ISTS], NV_PAPU_ISTS_FETINTSTS)
    /\ HasBit(regs[NV_PAPU_FETFORCE1], NV_PAPU_FETFORCE1_SE2FE_IDLE_VOICE)
    /\ LinkedIdle
    /\ \A L \in 1 .. 3 : Reaches(regs, voices, L)

=========================================================================
